---- MODULE Spec2Model ----
(***************************************************************************)
(* A model of the decision core of the Minecraft bot: the BrainManager     *)
(* arbitration round (brains/brain_manager.py), the CommandQueue, the      *)
(* SelfPrompter and the ActionManager scheduler (core/action_manager.py),   *)
(* with the perception events that re-enter the scheduler                   *)
(* (core/perception.py, core/event_bus.py).                                 *)
(***************************************************************************)
EXTENDS Integers, Sequences, FiniteSets, TLC

VARIABLES
    brains,           \* BrainManager.brains: registered brains, in registration order
    bm_history,       \* BrainManager.history: the vote-history log
    bm_call,          \* what the last BrainManager.decide call did and returned
    queue,            \* CommandQueue.queue: the pending commands, front first
    current_command,  \* CommandQueue.current_command
    history,          \* CommandQueue.history: the archived commands, oldest first
    next_id,          \* the number of commands added so far (the next command's id)
    archived,         \* ids of all commands ever archived, in the order of archiving
    clears,           \* the number of CommandQueue.clear calls made from outside
    decided,          \* ids of the commands enqueued by decide_next_action
    dispatched,       \* ids of the commands handed to execute, in dispatch order
    last_dispatch,    \* the last dispatched command and what was pending behind it
    last_damage,      \* the last outermost emission of health_damage: what was
                      \* pending then and the rounds run before emit returned
    stack,            \* the call stack of the scheduler thread, innermost frame last
    clock,            \* time.time()
    last_prompt_time, \* SelfPrompter.last_prompt_time
    last_fire,        \* the time of the last self-prompt that started a round
    bot_health,       \* bot.health, as the world interface reports it
    hostile_close,    \* whether a hostile mob is 5 blocks from the bot
    last_health,      \* EnhancedPerception.last_health
    bot_food,         \* bot.food, as the world interface reports it
    last_food,        \* EnhancedPerception.last_food
    bot_ready,        \* whether the bot object exists and has its entity attribute
    bot_inventory,    \* bot.inventory.items(), as name and count
    seen,             \* what the snapshot begun last has read and met so far
    returned,         \* what the last get_complete_state call to return gave back
    last_scan,        \* EnhancedPerception.last_scan: its nearby_entities and inventory
    exec_log,         \* the decisions handed to ActionManager.execute directly, with
                      \* the call each was routed to, oldest first
    brain_out,        \* the last perception handed to the brains directly, with
                      \* each brain's vote and decision for it
    skill_out,        \* the last SkillManager.execute_skill call: its arguments,
                      \* the bot calls it made, and what it returned
    llm_brain,        \* the LLMBrain of the session: whether it is constructed, its
                      \* apis, each api's error_count, and whether knowledge is set
    llm_call,         \* the last LLMBrain.decide call: the error counts before it,
                      \* what each provider answered, the providers called in
                      \* order, and what the call returned or that it raised
    memory,           \* the HistoryManager: turns, locations and memory_summary
    memory_file,      \* the document in logs/<bot_name>_memory.json, if any
    logs_dir,         \* whether the directory logs exists where the bot runs;
                      \* not known before the first write is tried
    memory_log,       \* the number of add_turn calls so far and the last call made
                      \* on the HistoryManager
    ai_started,       \* whether MinecraftBot.action_manager is set
    running,          \* ActionManager.running
    loops,            \* the threads started on _tick_loop, oldest first, each with
                      \* the place it is at
    writers,          \* the threads that have changed the queue or called execute
    bus_instance,     \* EventBus._instance: 0 for None, else the object's number
    bus_objects,      \* the EventBus objects ever created, each with its
                      \* _initialized flag and its subscribers
    event_bus,        \* the event_bus field of each component that calls EventBus()
    constructions,    \* the number of EventBus() calls made so far
    last_emit         \* the last EventBus.emit call: its arguments, the handlers
                      \* it called, and whether it raised

(***************************************************************************)
(* Bounds of the model.                                                    *)
(***************************************************************************)
MaxBrains == 3        \* at most this many brains are registered
MaxRounds == 1        \* at most this many rounds are logged in bm_history

(***************************************************************************)
(* Brains and what their vote and decide calls can do.                     *)
(***************************************************************************)
BrainNames ==
    {"AggressiveBrain", "CautiousBrain", "HealthBrain", "StrategicBrain",
     "CombatBrain", "SurvivalBrain", "LLM_Brain"}

\* Scores a vote can return (Brain.vote: "Return vote score (0-100)").
Scores == {0, 60}

\* A call of brain.vote(perception): it returns a score or it raises.
VoteOutcomes ==
    {[raises |-> TRUE, score |-> 0]} \cup {[raises |-> FALSE, score |-> s] : s \in Scores}

DecisionActions == {"IDLE", "MOVE"}
Priorities == {"LOW", "HIGH"}

\* Keys a dict does not have.
NoBrain == "<absent>"
NoScore == -1
NoPriority == "<absent>"

\* A call of brain.decide(perception): it returns a fresh dict or it raises.
DecideOutcomesOf(actions, priorities) ==
    {[raises |-> TRUE, action |-> "IDLE", priority |-> NoPriority]}
        \cup {[raises |-> FALSE, action |-> a, priority |-> p] :
                a \in actions, p \in priorities}

DecideOutcomes == DecideOutcomesOf(DecisionActions, Priorities)

BrainReason == "brain reason"
NoBrainsReason == "No brains registered"

\* The dict BrainManager.decide returns when no brain is registered.
NoBrainsDecision ==
    [action |-> "IDLE", priority |-> NoPriority, reason |-> NoBrainsReason,
     brain |-> NoBrain, score |-> NoScore]

\* The value of a call that raised instead of returning.
NoDecision ==
    [action |-> "<raised>", priority |-> NoPriority, reason |-> "<raised>",
     brain |-> NoBrain, score |-> NoScore]

(***************************************************************************)
(* BrainManager.decide                                                     *)
(***************************************************************************)

\* The voting loop without its try/except: the first vote that raises ends
\* the loop and the round.
RECURSIVE CollectVotesUnguarded(_, _, _)
CollectVotesUnguarded(bs, vo, i) ==
    IF i > Len(bs) THEN [votes |-> <<>>, calls |-> <<>>, raised |-> FALSE]
    ELSE IF vo[i].raises
         THEN [votes |-> <<>>, calls |-> <<[op |-> "vote", idx |-> i]>>,
               raised |-> TRUE]
         ELSE LET rest == CollectVotesUnguarded(bs, vo, i + 1)
                  v == [idx |-> i, brain |-> bs[i], score |-> vo[i].score]
              IN [votes |-> <<v>> \o rest.votes,
                  calls |-> <<[op |-> "vote", idx |-> i]>> \o rest.calls,
                  raised |-> rest.raised]

\* The voting loop from brain i on: every brain is asked; a vote that raises
\* is logged and scored 0.  The result is the list of (brain, score) in
\* registration order together with the log of the calls made.
RECURSIVE CollectVotes(_, _, _)
CollectVotes(bs, vo, i) ==
    IF i > Len(bs) THEN [votes |-> <<>>, calls |-> <<>>, raised |-> FALSE]
    ELSE LET rest == CollectVotes(bs, vo, i + 1)
             v == [idx |-> i, brain |-> bs[i],
                   score |-> IF vo[i].raises THEN 0 ELSE vo[i].score]
         IN [votes |-> <<v>> \o rest.votes,
             calls |-> <<[op |-> "vote", idx |-> i]>> \o rest.calls,
             raised |-> FALSE]

\* An insertion that puts a vote before the votes of equal score: a sort that
\* is not stable.
RECURSIVE InsertVoteUnstable(_, _)
InsertVoteUnstable(v, sorted) ==
    IF sorted = <<>> THEN <<v>>
    ELSE IF Head(sorted).score > v.score
         THEN <<Head(sorted)>> \o InsertVoteUnstable(v, Tail(sorted))
         ELSE <<v>> \o sorted

\* list.sort(key=score, reverse=True): a stable sort, so votes with equal
\* scores keep their registration order.
RECURSIVE InsertVote(_, _)
InsertVote(v, sorted) ==
    IF sorted = <<>> THEN <<v>>
    ELSE IF Head(sorted).score >= v.score
         THEN <<Head(sorted)>> \o InsertVote(v, Tail(sorted))
         ELSE <<v>> \o sorted

RECURSIVE SortVotes(_)
SortVotes(votes) ==
    IF votes = <<>> THEN <<>>
    ELSE LET n == Len(votes)
         IN InsertVote(votes[n], SortVotes(SubSeq(votes, 1, n - 1)))

\* A decide that takes votes[0] of an empty list: IndexError.
EmptyResultRaises(hist) ==
    [raised |-> TRUE, decide_raised |-> FALSE, decision |-> NoDecision,
     history |-> hist, votes |-> <<>>, calls |-> <<>>]

\* if not self.brains: return {'action': 'IDLE', 'reason': 'No brains registered'}
EmptyResult(hist) ==
    [raised |-> FALSE, decide_raised |-> FALSE, decision |-> NoBrainsDecision,
     history |-> hist, votes |-> <<>>, calls |-> <<>>]

\* Every brain that voted is asked to decide, the winner first.
DecideCallsEveryBrain(sorted) ==
    [k \in DOMAIN sorted |-> [op |-> "decide", idx |-> sorted[k].idx]]

\* winner_brain, winner_score = votes[0]; winner_brain.decide(perception):
\* the calls of decide made for the sorted votes.
DecideCalls(sorted) == <<[op |-> "decide", idx |-> sorted[1].idx]>>

\* The whole call decide(perception) on the brains bs with log hist, where vo[i]
\* is what brain i's vote does and do is what the winner's decide does.  The
\* call of the winner's decide is not guarded: when it raises, decide raises.
BMDecide(bs, hist, vo, do) ==
    IF bs = <<>>
    THEN EmptyResult(hist)
    ELSE LET col == CollectVotes(bs, vo, 1)
             sorted == SortVotes(col.votes)
             winner == sorted[1]
             calls == col.calls \o DecideCalls(sorted)
             decision == [action |-> do.action, priority |-> do.priority,
                          reason |-> BrainReason,
                          brain |-> winner.brain, score |-> winner.score]
         IN IF col.raised
            THEN [raised |-> TRUE, decide_raised |-> FALSE, decision |-> NoDecision,
                  history |-> hist, votes |-> col.votes, calls |-> col.calls]
            ELSE IF do.raises
            THEN [raised |-> TRUE, decide_raised |-> TRUE, decision |-> NoDecision,
                  history |-> hist, votes |-> col.votes, calls |-> calls]
            ELSE [raised |-> FALSE, decide_raised |-> FALSE, decision |-> decision,
                  history |-> Append(hist, [votes |-> sorted, decision |-> decision]),
                  votes |-> col.votes, calls |-> calls]

NoCall == [kind |-> "none", raised |-> FALSE, decide_raised |-> FALSE,
           decision |-> NoDecision, votes |-> <<>>, calls |-> <<>>,
           vote_raised |-> <<>>]

\* The record of a decide call: its result and what it was given.
CallRecord(r, vo) ==
    [kind |-> "decide", raised |-> r.raised, decide_raised |-> r.decide_raised,
     decision |-> r.decision, votes |-> r.votes, calls |-> r.calls,
     vote_raised |-> [i \in DOMAIN vo |-> vo[i].raises]]

(***************************************************************************)
(* CommandQueue                                                            *)
(***************************************************************************)
HistoryCap == 50

NoCommand ==
    [id |-> 0, action |-> "<none>", priority |-> NoPriority, reason |-> "<none>",
     brain |-> NoBrain, score |-> NoScore, status |-> "<none>", retry_count |-> 0]

Min(a, b) == IF a < b THEN a ELSE b

\* An add that orders the queue by priority: a HIGH command goes to the front.
QueueAddByPriority(q, command, id) ==
    LET c == [id |-> id, action |-> command.action, priority |-> command.priority,
              reason |-> command.reason, brain |-> command.brain,
              score |-> command.score, status |-> "pending", retry_count |-> 0]
    IN IF command.priority = "HIGH" THEN <<c>> \o q ELSE Append(q, c)

\* CommandQueue.add(command): the dict gets an id, status pending and
\* retry_count 0 and goes to the back of the deque.
QueueAdd(q, command, id) ==
    Append(q, [id |-> id, action |-> command.action, priority |-> command.priority,
               reason |-> command.reason, brain |-> command.brain,
               score |-> command.score, status |-> "pending", retry_count |-> 0])

\* CommandQueue.get_next()
QueueGetNext(q) == IF q # <<>> THEN q[1] ELSE NoCommand

\* An archive that drops the newest entry when the history is full.
ArchiveDropsNewest(h, cmd) ==
    IF Len(h) >= HistoryCap THEN h ELSE Append(h, cmd)

\* history.append(cmd); if len(history) > 50: history.pop(0)
Archive(h, cmd) ==
    LET h2 == Append(h, cmd)
    IN IF Len(h2) > HistoryCap THEN Tail(h2) ELSE h2

\* A pop that archives the front command without marking it completed.
QueuePopKeepsStatus(q, cur, h) ==
    IF q # <<>>
    THEN [queue |-> Tail(q), current_command |-> cur,
          history |-> Archive(h, q[1]), popped |-> <<q[1].id>>]
    ELSE [queue |-> q, current_command |-> cur, history |-> h, popped |-> <<>>]

\* CommandQueue.pop(): the front command is marked completed and archived.
\* cur is current_command, which is the same dict when it has the same id.
QueuePop(q, cur, h) ==
    IF q # <<>>
    THEN LET cmd == [q[1] EXCEPT !.status = "completed"]
         IN [queue |-> Tail(q),
             current_command |-> IF cur.id = cmd.id THEN cmd ELSE cur,
             history |-> Archive(h, cmd),
             popped |-> <<cmd.id>>]
    ELSE [queue |-> q, current_command |-> cur, history |-> h, popped |-> <<>>]

\* CommandQueue.clear()
QueueClear(q, cur) == [queue |-> <<>>, current_command |-> NoCommand]

\* CommandQueue.is_empty()
QueueIsEmpty(q) == Len(q) = 0

(***************************************************************************)
(* EventBus (core/event_bus.py): the singleton constructor, subscribe and  *)
(* emit, as pure operators.                                                *)
(***************************************************************************)
\* The event types the program emits or subscribes to that the model draws
\* from; nothing subscribes to food_decrease.
BusEvents == {"health_damage", "threat_detected", "chat_received", "food_decrease"}

\* The callbacks ActionManager._setup_events subscribes.
BusHandlers == {"_on_damage", "_on_threat", "_on_chat"}

\* The payloads of an emission.
BusPayloads == {"data1", "data2"}

\* The classes whose __init__ calls EventBus() and keeps the result.
Components == {"ActionManager", "EnhancedPerception", "BrainManager"}

\* defaultdict(list): every event type maps to the empty list until subscribed.
NoSubscribers == [e \in BusEvents |-> <<>>]

\* EventBus.__new__: the object is created on the first call only.
BusNew(instance, objects) ==
    IF instance = 0
    THEN [instance |-> Len(objects) + 1,
          objects |-> Append(objects, [initialized |-> FALSE,
                                       subscribers |-> NoSubscribers])]
    ELSE [instance |-> instance, objects |-> objects]

\* EventBus.__init__ without its guard: every construction starts the
\* subscribers afresh.
BusInitResets(obj) ==
    [initialized |-> TRUE, subscribers |-> NoSubscribers]

\* EventBus.__init__: returns at once on an initialized object.
BusInit(obj) ==
    IF obj.initialized
    THEN obj
    ELSE [initialized |-> TRUE, subscribers |-> NoSubscribers]

\* The call EventBus(): __new__, then __init__ on what __new__ returned.
EventBusCall(instance, objects) ==
    LET n == BusNew(instance, objects)
    IN [instance |-> n.instance,
        objects |-> [n.objects EXCEPT ![n.instance] = BusInit(@)],
        ref |-> n.instance]

\* EventBus.subscribe(event_type, callback)
BusSubscribe(subs, event, handler) ==
    [subs EXCEPT ![event] = Append(@, handler)]

\* The number of subscriptions, over all event types.
BusSubscriptions(subs) ==
    Cardinality(UNION {{<<e, i>> : i \in DOMAIN subs[e]} : e \in BusEvents})

\* ActionManager._setup_events
SetupEvents(subs) ==
    BusSubscribe(BusSubscribe(BusSubscribe(subs,
        "health_damage", "_on_damage"),
        "threat_detected", "_on_threat"),
        "chat_received", "_on_chat")

\* emit that calls the subscribers newest first.
BusEmitNewestFirst(subs, event, data, raising) ==
    LET n == Len(subs[event])
    IN [calls |-> [i \in 1..n |-> [handler |-> subs[event][n + 1 - i], data |-> data]],
        raised |-> FALSE]

\* emit without the try/except around the callback: the first callback that
\* raises ends the loop and the exception leaves emit.
BusEmitUnguarded(subs, event, data, raising) ==
    LET n == Len(subs[event])
        bad == {i \in 1..n : subs[event][i] \in raising}
        last == IF bad = {} THEN n ELSE CHOOSE i \in bad : \A j \in bad : i <= j
    IN [calls |-> [i \in 1..last |-> [handler |-> subs[event][i], data |-> data]],
        raised |-> bad # {}]

\* EventBus.emit(event_type, data): every callback of the type's list is
\* called with data, in list order, each inside its own try/except.  raising
\* is the set of callbacks that raise when called.
BusEmit(subs, event, data, raising) ==
    LET n == Len(subs[event])
    IN [calls |-> [i \in 1..n |-> [handler |-> subs[event][i], data |-> data]],
        raised |-> FALSE]

\* The bus after ActionManager.__init__: EventBus() is called by ActionManager,
\* by EnhancedPerception and by BrainManager, then _setup_events subscribes.
BusAtStart ==
    LET a == EventBusCall(0, <<>>)
        p == EventBusCall(a.instance, a.objects)
        b == EventBusCall(p.instance, p.objects)
    IN [instance |-> b.instance,
        objects |-> [b.objects EXCEPT ![a.ref].subscribers = SetupEvents(@)],
        event_bus |-> [c \in Components |->
                          CASE c = "ActionManager" -> a.ref
                            [] c = "EnhancedPerception" -> p.ref
                            [] c = "BrainManager" -> b.ref],
        constructions |-> 3]

NoEmit ==
    [via |-> "", event |-> "", data |-> "", raising |-> {}, calls |-> <<>>,
     raised |-> FALSE, after |-> 0]

bm_vars == <<brains, bm_history, bm_call>>
cq_vars == <<queue, current_command, history, next_id, archived, clears>>
bus_vars == <<bus_instance, bus_objects, event_bus, constructions, last_emit>>
snap_vars == <<seen, returned, last_scan>>
llm_vars == <<llm_brain, llm_call>>
mem_vars == <<memory, memory_file, logs_dir, memory_log>>
thread_vars == <<ai_started, running, loops, writers>>
pure_vars == <<brain_out, skill_out, llm_vars, mem_vars, thread_vars>>
ext_vars == <<exec_log, pure_vars, bus_vars, snap_vars>>
log_vars == <<decided, dispatched, last_dispatch, last_damage, ext_vars>>
am_vars == <<stack, clock, last_prompt_time, last_fire>>
world_vars ==
    <<bot_health, hostile_close, last_health, bot_food, last_food, bot_ready,
      bot_inventory>>
vars == <<bm_vars, cq_vars, log_vars, am_vars, world_vars>>

SelfPromptInterval == 5   \* SelfPrompter.interval
FullHealth == 20          \* EnhancedPerception.last_health at construction
FullFood == 20            \* EnhancedPerception.last_food at construction
StartClock == 6           \* the clock when the scheduler starts: the epoch time is
                          \* far more than one interval after last_prompt_time = 0

NoDispatch ==
    [id |-> 0, priority |-> NoPriority, waiting |-> <<>>,
     handler_raised |-> FALSE, raised |-> FALSE]

NoDamage == [active |-> FALSE, pending |-> {}, rounds |-> 0]

\* EnhancedPerception._get_minimal_state(), in the fields the model follows.
MinimalState ==
    [health |-> 20, food |-> 20, inventory |-> {}, nearby_entities |-> <<>>,
     threat_level |-> "SAFE", resource_priority |-> "EXPLORE"]

\* self.last_scan = {}: last_scan.get(key, default) gives the default.
NoScan == [nearby_entities |-> <<>>, inventory |-> {}]

NoSeen == [health |-> FullHealth, food |-> FullFood, scan_failed |-> FALSE]
NoReturn == [state |-> MinimalState, why |-> "", scan_failed |-> FALSE, hostile |-> FALSE]

(***************************************************************************)
(* The brains' vote and decide methods as functions of the perception.     *)
(* An inventory is the set of its keys (every count is at least 1), an     *)
(* entity carries its hostile flag and distance, a block its name.         *)
(***************************************************************************)
Items ==
    {"oak_log", "crafting_table", "wooden_pickaxe", "diamond_sword", "bread",
     "cobblestone"}

\* The words the brains look for that occur in an item or block name:
\* Python's `word in name` on strings.
WordsIn(name) ==
    CASE name = "oak_log" -> {"log", "oak_log"}
      [] name = "crafting_table" -> {"crafting_table"}
      [] name = "wooden_pickaxe" -> {"pickaxe", "wooden_pickaxe"}
      [] name = "diamond_sword" -> {"diamond", "sword"}
      [] name = "bread" -> {"bread"}
      [] name = "iron_ore" -> {"iron", "ore", "iron_ore"}
      [] name = "oak_planks" -> {"plank", "oak_planks"}
      [] name = "stick" -> {"stick"}
      [] name = "cobblestone" -> {"cobblestone"}
      [] OTHER -> {}

AnyContains(names, word) == \E n \in names : word \in WordsIn(n)

PerceivedHealth == {3, 9, 20}
FoodLevels == {5, 20}
TimesOfDay == {"Day", "Night"}
EntityLists ==
    {<<>>, <<[hostile |-> TRUE, distance |-> 3]>>, <<[hostile |-> FALSE, distance |-> 3]>>}
BlockLists == {<<>>, <<"oak_log">>, <<"iron_ore">>}

\* str(self.bot.game.dimension).replace('minecraft:', '')
Dimensions == {"overworld", "the_nether"}

Perceptions ==
    [health : PerceivedHealth, food : FoodLevels, inventory : SUBSET Items,
     nearby_entities : EntityLists, nearby_blocks : BlockLists,
     time_of_day : TimesOfDay, dimension : Dimensions]

\* A vote that returns its raw score.
ClampVoteNone(score) == score

\* min(100, max(0, score))
ClampVote(score) == IF score > 100 THEN 100 ELSE IF score < 0 THEN 0 ELSE score

\* [e for e in perception.get('nearby_entities', []) if e.get('hostile')]
Threats(p) == SelectSeq(p.nearby_entities, LAMBDA e : e.hostile)

RECURSIVE ThreatScore(_)
ThreatScore(threats) ==
    IF threats = <<>> THEN 0
    ELSE (IF Head(threats).distance < 5 THEN 40
          ELSE IF Head(threats).distance < 10 THEN 20
          ELSE 5) + ThreatScore(Tail(threats))

\* CautiousBrain.vote(perception)
CautiousVote(p) ==
    ClampVote(30
              + (IF p.health < 8 THEN 60 ELSE IF p.health < 15 THEN 30 ELSE 0)
              + ThreatScore(Threats(p))
              + (IF p.time_of_day = "Night" THEN 25 ELSE 0)
              + (IF Len(Threats(p)) > 2 THEN 20 ELSE 0))

\* AggressiveBrain.vote(perception)
AggressiveVote(p) ==
    ClampVote(40
              + (IF p.health > 15 THEN 30 ELSE 0)
              - (IF p.health <= 15 /\ p.health < 8 THEN 20 ELSE 0)
              + (IF p.food > 15 THEN 10 ELSE 0)
              + (IF AnyContains(p.inventory, "sword") THEN 30 ELSE 0)
              + (IF AnyContains(p.inventory, "diamond") THEN 20 ELSE 0)
              + Len(Threats(p)) * 15
              + (IF p.time_of_day = "Night" THEN 10 ELSE 0))

\* SurvivalBrain.vote(perception)
SurvivalVote(p) ==
    ClampVote(30
              + (IF p.food < 10 THEN 40 ELSE 0)
              + (IF p.health < 15 THEN 20 ELSE 0)
              + (IF ~AnyContains(p.inventory, "pickaxe") THEN 20 ELSE 0))

\* HealthBrain.vote(perception)
HealingItems == {"bread", "cooked_beef", "cooked_porkchop", "golden_apple"}
HealthVote(p) ==
    ClampVote(20
              + (IF p.health < 20 THEN (20 - p.health) * 5 ELSE 0)
              + (IF p.food < 15 THEN 30 ELSE 0)
              + (IF p.food < 10 THEN 20 ELSE 0)
              + (IF p.inventory \cap HealingItems # {}
                    /\ (p.health < 20 \/ p.food < 15) THEN 25 ELSE 0))

\* StrategicBrain.vote(perception)
Valuable(p) ==
    SelectSeq(p.nearby_blocks,
              LAMBDA b : {"diamond", "iron", "gold"} \cap WordsIn(b) # {})
StrategicVote(p) ==
    ClampVote(50
              + (IF p.health > 15 THEN 20 ELSE 0)
              + (IF Cardinality(p.inventory) > 5 THEN 15 ELSE 0)
              + (IF Valuable(p) # <<>> THEN 20 ELSE 0)
              + (IF ~AnyContains(p.inventory, "pickaxe") THEN 25 ELSE 0)
              + (IF p.dimension = "overworld" /\ ~AnyContains(p.inventory, "obsidian")
                 THEN 15 ELSE 0))

\* CombatBrain.vote(perception)
CombatVote(p) ==
    ClampVote(IF Threats(p) # <<>>
              THEN 40 + (IF p.health > 10 THEN 20 ELSE 0)
              ELSE 0)

\* LLMBrain.vote(perception): return 60
LLMVote == 60

FoodItems ==
    {"bread", "cooked_beef", "cooked_porkchop", "cooked_chicken", "apple",
     "golden_apple", "cooked_mutton", "baked_potato"}
WoodTypes == {"oak_log", "birch_log", "spruce_log", "oak_planks", "birch_planks"}

\* SurvivalBrain._has_food(perception)
HasFood(p) == p.inventory \cap FoodItems # {}
\* SurvivalBrain._has_wood(inventory)
HasWood(inventory) == inventory \cap WoodTypes # {}
\* SurvivalBrain._has_pickaxe(inventory)
HasPickaxe(inventory) == AnyContains(inventory, "pickaxe")
\* SurvivalBrain._has_item(inventory, item_name)
HasItem(inventory, item_name) == item_name \in inventory

Decision(action, priority) == [action |-> action, priority |-> priority]
None == [action |-> "None", priority |-> "None"]

\* SurvivalBrain._assess_danger(perception)
AssessDanger(p) == IF p.health <= 4 THEN Decision("FLEE", "HIGH") ELSE None

\* SurvivalBrain._manage_health(perception)
ManageHealth(p) ==
    IF p.health < 10
    THEN IF HasFood(p) THEN Decision("EAT", "HIGH") ELSE Decision("FLEE", "HIGH")
    ELSE None

\* SurvivalBrain._manage_food(perception)
ManageFood(p) ==
    IF p.food < 6
    THEN IF HasFood(p) THEN Decision("EAT", "HIGH") ELSE Decision("IDLE", "MEDIUM")
    ELSE None

\* SurvivalBrain._progress(perception)
Progress(p) ==
    IF ~HasWood(p.inventory)
    THEN IF \E i \in DOMAIN p.nearby_blocks : "log" \in WordsIn(p.nearby_blocks[i])
         THEN Decision("MINE", "MEDIUM")
         ELSE None
    ELSE IF ~HasItem(p.inventory, "crafting_table") THEN Decision("CRAFT", "MEDIUM")
    ELSE IF ~HasPickaxe(p.inventory) THEN Decision("CRAFT", "MEDIUM")
    ELSE None

\* SurvivalBrain.decide(perception)
SurvivalDecide(p) ==
    IF AssessDanger(p) # None THEN AssessDanger(p)
    ELSE IF ManageHealth(p) # None THEN ManageHealth(p)
    ELSE IF ManageFood(p) # None THEN ManageFood(p)
    ELSE IF p.time_of_day = "Night" THEN Decision("FLEE", "MEDIUM")
    ELSE IF Progress(p) # None THEN Progress(p)
    ELSE Decision("IDLE", "LOW")

\* StrategicBrain.decide(perception)
StrategicDecide(p) ==
    IF ~(AnyContains(p.inventory, "log") \/ AnyContains(p.inventory, "plank"))
    THEN Decision("MINE", "MEDIUM")
    ELSE IF ~AnyContains(p.inventory, "crafting_table") THEN Decision("CRAFT", "MEDIUM")
    ELSE IF ~AnyContains(p.inventory, "pickaxe") THEN Decision("CRAFT", "MEDIUM")
    ELSE IF \E i \in DOMAIN p.nearby_blocks : "ore" \in WordsIn(p.nearby_blocks[i])
    THEN Decision("MINE", "MEDIUM")
    ELSE Decision("IDLE", "LOW")

\* What the brains answer to one perception.
\* The brains _start_ai registers, in the order it registers them.
BuiltInBrains ==
    <<"AggressiveBrain", "CautiousBrain", "HealthBrain", "StrategicBrain",
      "CombatBrain", "SurvivalBrain", "LLM_Brain">>

BrainVote(name, p) ==
    CASE name = "AggressiveBrain" -> AggressiveVote(p)
      [] name = "CautiousBrain" -> CautiousVote(p)
      [] name = "HealthBrain" -> HealthVote(p)
      [] name = "StrategicBrain" -> StrategicVote(p)
      [] name = "CombatBrain" -> CombatVote(p)
      [] name = "SurvivalBrain" -> SurvivalVote(p)
      [] name = "LLM_Brain" -> LLMVote

\* BrainManager.decide(perception) on the registered brains: the decision it
\* returns carries the winner's name and the winner's vote.
ArbitrateBuiltIn(p) ==
    BMDecide(BuiltInBrains, <<>>,
             [i \in DOMAIN BuiltInBrains |->
                 [raises |-> FALSE, score |-> BrainVote(BuiltInBrains[i], p)]],
             [raises |-> FALSE, action |-> "MOVE", priority |-> "LOW"]).decision

BrainsAnswer(p) ==
    [asked |-> TRUE, perception |-> p,
     votes |-> [n \in BrainNames |-> BrainVote(n, p)],
     stamped |-> ArbitrateBuiltIn(p),
     decisions |-> [StrategicBrain |-> StrategicDecide(p),
                    SurvivalBrain |-> SurvivalDecide(p)]]

NoBrainOut ==
    [asked |-> FALSE,
     perception |-> [health |-> 20, food |-> 20, inventory |-> {},
                     nearby_entities |-> <<>>, nearby_blocks |-> <<>>,
                     time_of_day |-> "Day", dimension |-> "overworld"],
     votes |-> [n \in BrainNames |-> 0],
     stamped |-> NoBrainsDecision,
     decisions |-> [StrategicBrain |-> None, SurvivalBrain |-> None]]

(***************************************************************************)
(* SkillManager.execute_skill for the skill craft_item, as a function of   *)
(* what the bot object answers.                                            *)
(***************************************************************************)
RecipesFor == "bot.recipesFor(item.id, None, 1, None)"
FindBlock == "bot.findBlock"
RecipesForTable == "bot.recipesFor(item.id, None, 1, table_block)"
SetGoal == "bot.pathfinder.setGoal"
Craft == "bot.craft"
BotCalls == {RecipesFor, FindBlock, RecipesForTable, SetGoal, Craft}
MutatingCalls == {SetGoal, Craft}

\* What the world answers to one craft_item call: whether require is there
\* (the javascript import succeeded), whether the item name is known, the
\* recipes without and with a crafting table, whether a table is within 32
\* blocks, whether the pathfinder plugin is loaded, and the bot call that
\* raises, if any.
CraftWorlds ==
    [require : BOOLEAN, item_known : BOOLEAN, recipes : BOOLEAN, table : BOOLEAN,
     table_recipes : BOOLEAN, pathfinder : BOOLEAN, raises : BotCalls \cup {"none"}]

SkillReturn(calls, result) == [calls |-> calls, result |-> result, raised |-> FALSE]

\* lines 98-113, reached with a non-empty recipes list; the except clause of
\* line 115 turns a raising call into False
CraftWith(w, calls, with_table) ==
    LET go == with_table /\ w.pathfinder
        c1 == IF go THEN Append(calls, SetGoal) ELSE calls
    IN IF go /\ w.raises = SetGoal THEN SkillReturn(c1, FALSE)
       ELSE IF w.raises = Craft THEN SkillReturn(Append(c1, Craft), FALSE)
       ELSE SkillReturn(Append(c1, Craft), TRUE)

\* _skill_craft_item with the path goal set as soon as a table is found
SkillCraftItemGoesFirst(w) ==
    LET found == IF w.pathfinder THEN <<RecipesFor, FindBlock, SetGoal>>
                 ELSE <<RecipesFor, FindBlock>>
    IN IF ~w.require THEN SkillReturn(<<>>, FALSE)
       ELSE IF ~w.item_known THEN SkillReturn(<<>>, FALSE)
       ELSE IF w.raises = RecipesFor THEN SkillReturn(<<RecipesFor>>, FALSE)
       ELSE IF w.recipes THEN CraftWith(w, <<RecipesFor>>, FALSE)
       ELSE IF w.raises = FindBlock THEN SkillReturn(<<RecipesFor, FindBlock>>, FALSE)
       ELSE IF ~w.table THEN SkillReturn(<<RecipesFor, FindBlock>>, FALSE)
       ELSE IF w.pathfinder /\ w.raises = SetGoal THEN SkillReturn(found, FALSE)
       ELSE IF w.raises = RecipesForTable
       THEN SkillReturn(Append(found, RecipesForTable), FALSE)
       ELSE IF ~w.table_recipes THEN SkillReturn(Append(found, RecipesForTable), FALSE)
       ELSE CraftWith([w EXCEPT !.pathfinder = FALSE],
                      Append(found, RecipesForTable), TRUE)

\* SkillManager._skill_craft_item(params)
SkillCraftItem(w) ==
    IF ~w.require THEN SkillReturn(<<>>, FALSE)
    ELSE IF ~w.item_known THEN SkillReturn(<<>>, FALSE)
    ELSE IF w.raises = RecipesFor THEN SkillReturn(<<RecipesFor>>, FALSE)
    ELSE IF w.recipes THEN CraftWith(w, <<RecipesFor>>, FALSE)
    ELSE IF w.raises = FindBlock THEN SkillReturn(<<RecipesFor, FindBlock>>, FALSE)
    ELSE IF ~w.table THEN SkillReturn(<<RecipesFor, FindBlock>>, FALSE)
    ELSE IF w.raises = RecipesForTable
    THEN SkillReturn(<<RecipesFor, FindBlock, RecipesForTable>>, FALSE)
    ELSE IF ~w.table_recipes
    THEN SkillReturn(<<RecipesFor, FindBlock, RecipesForTable>>, FALSE)
    ELSE CraftWith(w, <<RecipesFor, FindBlock, RecipesForTable>>, TRUE)

SkillNames == {"craft_item", "dance"}

\* SkillManager.execute_skill(skill_name, params)
ExecuteSkill(skill_name, w) ==
    IF skill_name = "craft_item" THEN SkillCraftItem(w) ELSE SkillReturn(<<>>, FALSE)

NoSkillOut ==
    [called |-> FALSE, skill_name |-> "",
     world |-> [require |-> FALSE, item_known |-> FALSE, recipes |-> FALSE,
                table |-> FALSE, table_recipes |-> FALSE, pathfinder |-> FALSE,
                raises |-> "none"],
     calls |-> <<>>, result |-> FALSE, raised |-> FALSE]

(***************************************************************************)
(* LLMBrain: its providers, their error counts, and decide.                *)
(***************************************************************************)
ApiTypes == {"huggingface", "openai_compatible", "rules"}
ApiPriorities == {1, 999}   \* api_conf.get('priority', 999)
ErrorThreshold == 3         \* a provider with more errors than this is skipped
MaxApis == 2                \* at most this many enabled providers in settings.json

\* The api entries _start_ai can build from settings.json: one per key.
ApiEntries ==
    {e \in [id : {"hf", "groq", "local"}, type : ApiTypes, priority : ApiPriorities] :
        \/ (e.id = "hf" /\ e.type = "huggingface")
        \/ (e.id = "groq" /\ e.type = "openai_compatible")
        \/ (e.id = "local" /\ e.type = "rules")}

ApiLists ==
    {l \in UNION {[1..n -> ApiEntries] : n \in 0..MaxApis} :
        \A i, j \in DOMAIN l : i # j => l[i].id # l[j].id}

\* sorted(apis, key=lambda x: x.get('priority', 999)): stable, ascending
RECURSIVE SortedByPriority(_)
SortedByPriority(apis) ==
    IF apis = <<>> THEN <<>>
    ELSE LET front == SortedByPriority(SubSeq(apis, 1, Len(apis) - 1))
             last == apis[Len(apis)]
             keep == SelectSeq(front, LAMBDA a : a.priority <= last.priority)
             rest == SelectSeq(front, LAMBDA a : a.priority > last.priority)
         IN keep \o <<last>> \o rest

ApiIds(apis) == {apis[i].id : i \in DOMAIN apis}

\* LLMBrain.__init__(apis, logger)
LLMBrainNew(apis) ==
    [constructed |-> TRUE, apis |-> SortedByPriority(apis),
     error_count |-> [id \in ApiIds(apis) |-> 0], knowledge |-> FALSE]

\* What a provider can answer in one round: the request fails, the status is
\* not 200, the text holds no JSON object with an action, the JSON object has
\* an action but no reason, or it is a full decision.
Answers == {"network_error", "http_error", "unparsable", "no_reason", "decision"}
Failures == {"network_error", "http_error", "unparsable"}

\* _call_huggingface, _call_openai_compatible and _call_rules, by what comes
\* back to decide: an exception, None, or a dict with or without a reason.
CallApi(type, answer) ==
    CASE type = "rules" -> "decision"
      [] type = "huggingface" /\ answer = "network_error" -> "raises"
      [] answer \in Failures -> "None"
      [] OTHER -> answer

\* LLMBrain._call_rules(perception)
CallRules(p) ==
    IF p.health < 6 THEN Decision("FLEE", "HIGH")
    ELSE IF Threats(p) # <<>> /\ p.health > 10 THEN Decision("COMBAT", "HIGH")
    ELSE IF Threats(p) # <<>> THEN Decision("FLEE", "HIGH")
    ELSE IF p.food < 6 THEN Decision("EAT", "MEDIUM")
    ELSE Decision("IDLE", "LOW")

\* The decision a provider's JSON carries.
ApiDecision == Decision("MINE", "None")

\* the loop of decide without the error-count test of line 85
RECURSIVE DecideLoopRetrying(_, _, _, _, _, _)
DecideLoopRetrying(apis, i, error_count, tried, answers, p) ==
    IF i > Len(apis)
    THEN [result |-> CallRules(p), from |-> "fallback", error_count |-> error_count,
          tried |-> tried]
    ELSE LET id == apis[i].id
             got == CallApi(apis[i].type, answers[id])
             called == Append(tried, id)
         IN CASE got = "raises" ->
                   DecideLoopRetrying(apis, i + 1,
                                      [error_count EXCEPT ![id] = @ + 1], called,
                                      answers, p)
              [] got = "None" ->
                   DecideLoopRetrying(apis, i + 1, error_count, called, answers, p)
              [] got = "no_reason" ->
                   DecideLoopRetrying(apis, i + 1, [error_count EXCEPT ![id] = 1],
                                      called, answers, p)
              [] OTHER ->
                   [result |-> IF apis[i].type = "rules" THEN CallRules(p)
                               ELSE ApiDecision,
                    from |-> id, error_count |-> [error_count EXCEPT ![id] = 0],
                    tried |-> called]

\* A success that leaves the provider's error count as it is.
SuccessKeepsCount(error_count, id) == error_count

\* self.api_status[api_id]['error_count'] = 0
SuccessResetsCount(error_count, id) == [error_count EXCEPT ![id] = 0]

\* LLMBrain.decide from line 81 on: the loop over self.apis from the i-th and
\* the ultimate fallback.  A result without a reason has its error_count set
\* to 0 (line 102) before the log line raises KeyError (103), which the
\* except clause counts (108).
RECURSIVE DecideLoop(_, _, _, _, _, _)
DecideLoop(apis, i, error_count, tried, answers, p) ==
    IF i > Len(apis)
    THEN [result |-> CallRules(p), from |-> "fallback", error_count |-> error_count,
          tried |-> tried]
    ELSE LET id == apis[i].id
             got == CallApi(apis[i].type, answers[id])
             called == Append(tried, id)
         IN IF error_count[id] > ErrorThreshold
            THEN DecideLoop(apis, i + 1, error_count, tried, answers, p)
            ELSE CASE got = "raises" ->
                        DecideLoop(apis, i + 1, [error_count EXCEPT ![id] = @ + 1],
                                   called, answers, p)
                   [] got = "None" ->
                        DecideLoop(apis, i + 1, error_count, called, answers, p)
                   [] got = "no_reason" ->
                        DecideLoop(apis, i + 1, [error_count EXCEPT ![id] = 1],
                                   called, answers, p)
                   [] OTHER ->
                        [result |-> IF apis[i].type = "rules" THEN CallRules(p)
                                    ELSE ApiDecision,
                         from |-> id,
                         error_count |-> SuccessResetsCount(error_count, id),
                         tried |-> called]

\* LLMBrain.decide(perception): _build_context reads self.knowledge, which
\* only set_knowledge assigns, before any provider is tried.
LLMDecide(brain, answers, p) ==
    IF ~brain.knowledge
    THEN [raised |-> TRUE, result |-> None, from |-> "", tried |-> <<>>,
          error_count |-> brain.error_count]
    ELSE LET r == DecideLoop(brain.apis, 1, brain.error_count, <<>>, answers, p)
         IN [raised |-> FALSE, result |-> r.result, from |-> r.from,
             tried |-> r.tried, error_count |-> r.error_count]

\* The perceptions handed to LLMBrain.decide.
LLMPerceptions ==
    [health : {3, 20}, food : {5}, inventory : {{}},
     nearby_entities : {<<>>, <<[hostile |-> TRUE, distance |-> 3]>>},
     nearby_blocks : {<<>>}, time_of_day : {"Day"}]

\* What the providers of a list can answer in one round; _call_rules has one
\* answer, which the perception fixes.
AnswersOf(apis) ==
    {f \in [ApiIds(apis) -> Answers] :
        \A i \in DOMAIN apis : apis[i].type = "rules" => f[apis[i].id] = "decision"}

NoLLMBrain == [constructed |-> FALSE, apis |-> <<>>, error_count |-> <<>>,
               knowledge |-> FALSE]
NoLLMCall ==
    [called |-> FALSE, before |-> <<>>, answers |-> <<>>, raised |-> FALSE,
     result |-> None, from |-> "", tried |-> <<>>]

(***************************************************************************)
(* HistoryManager: the memory store and its file.  A turn is named by the  *)
(* number of the add_turn call that made it; a coordinate is counted in    *)
(* hundredths of a block, a stored one in tenths.                          *)
(***************************************************************************)
MaxTurns == 20      \* HistoryManager.max_turns
MaxAdded == 22      \* at most this many add_turn calls
LocationNames == {"home"}
Coordinates == {1234, 6449}

NewMemory == [turns |-> <<>>, memory_summary |-> "", locations |-> <<>>]
NoFile == [exists |-> FALSE]

\* round(x, 1), for an x that is not halfway between two tenths
Round1(x) == (x + 5) \div 10

\* json.dump(data, f): an object is written as its members, name and value
JsonDump(data) ==
    [exists |-> TRUE,
     memory_summary |-> data.memory_summary,
     locations |-> {<<k, data.locations[k]>> : k \in DOMAIN data.locations},
     turns |-> data.turns]

\* json.load(f) and the three data.get of load
JsonLoad(doc) ==
    [memory_summary |-> doc.memory_summary,
     locations |-> [k \in {m[1] : m \in doc.locations} |->
                       (CHOOSE m \in doc.locations : m[1] = k)[2]],
     turns |-> doc.turns]

\* HistoryManager.save(): the file after it.  open fails, and the failure is
\* printed, when the directory logs is not there.
Save(mem, file, dir_exists) == IF dir_exists THEN JsonDump(mem) ELSE file

\* HistoryManager.load()
Load(mem, file) == IF file.exists THEN JsonLoad(file) ELSE mem

\* add_turn with the newest entry dropped when the list is full
AddTurnDropsNewest(mem, entry) ==
    LET appended == Append(mem.turns, entry)
    IN [mem EXCEPT !.turns = IF Len(appended) > MaxTurns
                             THEN SubSeq(appended, 1, Len(appended) - 1)
                             ELSE appended]

\* HistoryManager.add_turn(role, content), up to the save
AddTurn(mem, entry) ==
    LET appended == Append(mem.turns, entry)
    IN [mem EXCEPT !.turns = IF Len(appended) > MaxTurns THEN Tail(appended)
                             ELSE appended]

\* HistoryManager.remember_location(name, x, y, z), up to the save
RememberLocation(mem, name, x, y, z) ==
    [mem EXCEPT !.locations =
        [k \in DOMAIN mem.locations \cup {name} |->
            IF k = name THEN <<Round1(x), Round1(y), Round1(z)>>
            ELSE mem.locations[k]]]

\* The state after ActionManager.__init__.
Init ==
    /\ brains = <<>>
    /\ bm_history = <<>>
    /\ bm_call = NoCall
    /\ queue = <<>>
    /\ current_command = NoCommand
    /\ history = <<>>
    /\ next_id = 1
    /\ archived = <<>>
    /\ clears = 0
    /\ decided = {}
    /\ dispatched = <<>>
    /\ last_dispatch = NoDispatch
    /\ last_damage = NoDamage
    /\ stack = <<>>
    /\ clock = StartClock
    /\ last_prompt_time = 0
    /\ last_fire = 0
    /\ bot_health = FullHealth
    /\ hostile_close = FALSE
    /\ last_health = FullHealth
    /\ bot_food = FullFood
    /\ last_food = FullFood
    /\ bot_ready = TRUE
    /\ bot_inventory = {}
    /\ seen = NoSeen
    /\ returned = NoReturn
    /\ last_scan = NoScan
    /\ exec_log = <<>>
    /\ brain_out = NoBrainOut
    /\ skill_out = NoSkillOut
    /\ llm_brain = NoLLMBrain
    /\ llm_call = NoLLMCall
    /\ memory = NewMemory
    /\ memory_file = NoFile
    /\ logs_dir = "unknown"
    /\ memory_log = [added |-> 0, last |-> "__init__"]
    /\ ai_started = FALSE
    /\ running = FALSE
    /\ loops = <<>>
    /\ writers = {}
    /\ bus_instance = BusAtStart.instance
    /\ bus_objects = BusAtStart.objects
    /\ event_bus = BusAtStart.event_bus
    /\ constructions = BusAtStart.constructions
    /\ last_emit = NoEmit

\* BrainManager.register_brain(brain)
register_brain(b, max) ==
    /\ stack = <<>>
    /\ Len(brains) < max
    /\ brains' = Append(brains, b)
    /\ UNCHANGED <<bm_history, bm_call, cq_vars, log_vars, am_vars, world_vars>>

\* The brains are registered in the order MinecraftBot._start_ai registers them.
RegistrationOrder ==
    <<"AggressiveBrain", "CautiousBrain", "HealthBrain", "StrategicBrain",
      "CombatBrain", "SurvivalBrain", "LLM_Brain">>

RegisterBrain ==
    \E b \in BrainNames :
        /\ Len(brains) < Len(RegistrationOrder)
        /\ b = RegistrationOrder[Len(brains) + 1]
        /\ register_brain(b, MaxBrains)

\* A call of BrainManager.decide(perception) from outside the scheduler.
Decide ==
    /\ stack = <<>>
    /\ Len(bm_history) < MaxRounds
    /\ \E vo \in [DOMAIN brains -> VoteOutcomes], do \in DecideOutcomesOf(DecisionActions, {"LOW"}) :
          LET r == BMDecide(brains, bm_history, vo, do)
          IN /\ bm_history' = r.history
             /\ bm_call' = CallRecord(r, vo)
    /\ UNCHANGED <<brains, cq_vars, log_vars, am_vars, world_vars>>

BMNext == RegisterBrain \/ Decide

SpecBM == Init /\ [][BMNext]_vars

(***************************************************************************)
(* Calls on the CommandQueue from outside the scheduler.                   *)
(***************************************************************************)
MaxQueue == 2         \* at most this many commands are pending at a time
MaxCommands == 52     \* at most this many commands are added in a run
MaxClears == 1        \* at most this many clear calls in a run

\* What a caller passes to CommandQueue.add: a decision dict.
ApiCommand(a, p) ==
    [action |-> a, priority |-> p, reason |-> "api", brain |-> NoBrain, score |-> NoScore]

\* queue.add(command), while fewer than max_pending commands are pending and
\* fewer than max have been added
AddUpTo(command, max, max_pending) ==
    /\ stack = <<>>
    /\ Len(queue) < max_pending
    /\ next_id <= max
    /\ queue' = QueueAdd(queue, command, next_id)
    /\ next_id' = next_id + 1
    /\ UNCHANGED <<current_command, history, archived, clears, bm_vars, log_vars, am_vars, world_vars>>

Add(command, max) == AddUpTo(command, max, MaxQueue)

\* queue.get_next(): a read, the queue is left as it is.
GetNext ==
    /\ stack = <<>>
    /\ QueueGetNext(queue) \in {NoCommand} \cup {queue[i] : i \in DOMAIN queue}
    /\ UNCHANGED vars

\* queue.pop()
Pop ==
    LET r == QueuePop(queue, current_command, history)
    IN /\ stack = <<>>
       /\ queue' = r.queue
       /\ current_command' = r.current_command
       /\ history' = r.history
       /\ archived' = archived \o r.popped
       /\ UNCHANGED <<next_id, clears, bm_vars, log_vars, am_vars, world_vars>>

\* queue.clear()
Clear ==
    /\ stack = <<>>
    /\ clears < MaxClears
    /\ LET r == QueueClear(queue, current_command)
       IN /\ queue' = r.queue
          /\ current_command' = r.current_command
    /\ clears' = clears + 1
    /\ UNCHANGED <<history, next_id, archived, bm_vars, log_vars, am_vars, world_vars>>

QueueAddOne == Add(ApiCommand("MOVE", "LOW"), MaxCommands)

QueueNext == QueueAddOne \/ GetNext \/ Pop \/ Clear

SpecQueue == Init /\ [][QueueNext]_vars

(***************************************************************************)
(* The scheduler thread: ActionManager.tick and everything it calls, one    *)
(* step at a time.  The stack holds the frames of the calls in progress;    *)
(* a frame's pc says where the call continues once its callee returns.      *)
(***************************************************************************)
MaxStack == 9         \* a call made at this depth raises RecursionError
MaxClock == 12        \* the clock stops here
MaxAMCommands == 2    \* at most this many commands are added in a scheduler run
MaxAMRounds == 1      \* at most this many rounds are logged in a scheduler run
MaxAMBrains == 1      \* at most this many brains are registered in a scheduler run
ClockStep == 3        \* the clock moves in steps of this many seconds

HealthValues == {10, 20}

Frame(fn, pc, event, val) == [fn |-> fn, pc |-> pc, event |-> event, val |-> val]
Top == stack[Len(stack)]
Below(stk) == SubSeq(stk, 1, Len(stk) - 1)
At(fn, pc) == stack # <<>> /\ Top.fn = fn /\ Top.pc = pc
Goto(stk, pc) == [stk EXCEPT ![Len(stk)].pc = pc]
CanCall(stk) == Len(stk) < MaxStack

\* _tick_loop at its except clause: tick() raised.
TickRaised == <<Frame("_tick_loop", "except", "", 0)>>

\* The stack after an exception leaves the innermost frame of stk: it passes
\* through the event handlers and decide_next_action, and is caught by
\* EventBus.emit (which goes on) or, at the bottom, by _tick_loop.
RECURSIVE Propagate(_)
Propagate(stk) ==
    LET rest == Below(stk)
    IN IF rest = <<>> THEN TickRaised
       ELSE IF rest[Len(rest)].fn = "emit" THEN rest
       ELSE Propagate(rest)

\* _setup_events: the handler subscribed to an event.
Subscriber(event) ==
    IF event = "health_damage" THEN "_on_damage" ELSE "_on_threat"

\* Whether the bus holds a subscription to the event.
HasSubscriber(event) ==
    bus_objects[bus_instance].subscribers[event] # <<>>

\* The frames of emit('health_damage') on a stack.
DamageFrames(stk) ==
    {i \in DOMAIN stk : stk[i].fn = "emit" /\ stk[i].event = "health_damage"}

\* The record of a health_damage emission made while the queue is q: an
\* emission made inside the delivery of another one belongs to that one.
DamageEmitted(ld, q) ==
    IF ld.active THEN ld
    ELSE [active |-> TRUE, pending |-> {q[i].id : i \in DOMAIN q}, rounds |-> 0]

\* The world interface: the bot is hurt or heals.
WorldChanges ==
    /\ stack = <<>>
    /\ \E h \in HealthValues :
          /\ h # bot_health
          /\ bot_health' = h
    /\ UNCHANGED <<hostile_close, last_health, bot_food, last_food, bot_ready,
                   bot_inventory, bm_vars,
                   cq_vars, log_vars, am_vars>>

\* time.sleep(0.1) in _tick_loop: time passes between two ticks.
AdvanceClock ==
    /\ stack = <<>>
    /\ clock + ClockStep <= MaxClock
    /\ clock' = clock + ClockStep
    /\ UNCHANGED <<stack, last_prompt_time, last_fire, bm_vars, cq_vars, log_vars, world_vars>>

\* A loop whose thread ends with the exception of tick().
TickLoopEnds == <<Frame("_tick_loop", "ended", "", 0)>>

\* _tick_loop after `except Exception as e`: the error is logged, the thread
\* sleeps and evaluates `while self.running` again.
TickLoopGoesOn == <<>>

\* _tick_loop: except Exception as e: self.logger.error(f"Tick error: {e}")
TickLoopExcept ==
    /\ At("_tick_loop", "except")
    /\ stack' = TickLoopGoesOn
    /\ UNCHANGED <<clock, last_prompt_time, last_fire, bm_vars, cq_vars, log_vars,
                   world_vars>>

\* SelfPrompter.update: the condition under which it asks for a decision.
SelfPromptDue(q, now, last) ==
    QueueIsEmpty(q) /\ now - last > SelfPromptInterval

\* tick() begins: self_prompter.update() up to its call of decide_next_action.
Update ==
    /\ stack = <<>>
    /\ LET now == clock
       IN IF SelfPromptDue(queue, now, last_prompt_time)
          THEN /\ stack' = <<Frame("tick", "prompted", "", now),
                            Frame("decide_next_action", "perceive", "", 0)>>
               /\ last_fire' = now
          ELSE /\ stack' = <<Frame("tick", "process", "", now)>>
               /\ UNCHANGED last_fire
    /\ UNCHANGED <<clock, last_prompt_time, bm_vars, cq_vars, log_vars, world_vars>>

\* update() after decide_next_action returned: last_prompt_time = now.
Prompted ==
    /\ At("tick", "prompted")
    /\ last_prompt_time' = Top.val
    /\ stack' = Goto(stack, "process")
    /\ UNCHANGED <<clock, last_fire, bm_vars, cq_vars, log_vars, world_vars>>

\* An execute whose except clause logs the failure and leaves the command at
\* the front of the queue.
ExecuteKeepsFailed(q, cur, h, handler_raises) ==
    IF handler_raises
    THEN [queue |-> q, current_command |-> cur, history |-> h, popped |-> <<>>,
          raised |-> FALSE]
    ELSE LET r == QueuePop(q, cur, h)
         IN [queue |-> r.queue, current_command |-> r.current_command,
             history |-> r.history, popped |-> r.popped, raised |-> FALSE]

\* ActionManager.execute(cmd): whether the action handler returns or raises,
\* the front command is popped, in the try block or in the except clause;
\* no exception leaves execute.
Execute(q, cur, h, handler_raises) ==
    LET r == IF handler_raises THEN QueuePop(q, cur, h) ELSE QueuePop(q, cur, h)
    IN [queue |-> r.queue, current_command |-> r.current_command,
        history |-> r.history, popped |-> r.popped, raised |-> FALSE]

\* A comparison that looks at the action of the two commands only.
IsNewCommandByAction(cmd, cur) == cmd.action # cur.action

\* if cmd != self.queue.current_command: two dicts are equal when they have
\* the same keys and values, id and status included; None equals no dict.
IsNewCommand(cmd, cur) == cmd # cur

\* tick(), second half: the front command, if it is not current_command,
\* becomes current_command and is executed.
Process ==
    /\ At("tick", "process")
    /\ IF ~QueueIsEmpty(queue) /\ IsNewCommand(QueueGetNext(queue), current_command)
       THEN \E handler_raises \in BOOLEAN :
               LET cmd == QueueGetNext(queue)
                   r == Execute(queue, cmd, history, handler_raises)
               IN /\ queue' = r.queue
                  /\ current_command' = r.current_command
                  /\ history' = r.history
                  /\ archived' = archived \o r.popped
                  /\ dispatched' = Append(dispatched, cmd.id)
                  /\ last_dispatch' =
                        [id |-> cmd.id, priority |-> cmd.priority,
                         waiting |-> [i \in 1..(Len(queue) - 1) |->
                                        [id |-> queue[i + 1].id,
                                         priority |-> queue[i + 1].priority]],
                         handler_raised |-> handler_raises,
                         raised |-> r.raised]
       ELSE UNCHANGED <<queue, current_command, history, archived, dispatched,
                        last_dispatch>>
    /\ stack' = <<>>
    /\ UNCHANGED <<next_id, clears, decided, last_damage, ext_vars, clock, last_prompt_time,
                   last_fire, bm_vars, world_vars>>

\* decide_next_action: perception_state = self.perception.get_complete_state()
Perceive ==
    /\ At("decide_next_action", "perceive")
    /\ IF CanCall(stack)
       THEN stack' = Append(Goto(stack, "arbitrate"),
                            Frame("get_complete_state", "start", "", 0))
       ELSE stack' = Propagate(stack)
    /\ UNCHANGED <<clock, last_prompt_time, last_fire, bm_vars, cq_vars, log_vars,
                   world_vars>>

\* _scan_entities: without the entities attribute the scan returns [] at once;
\* with it, the loop header names Object, which the module never defines: the
\* NameError is swallowed by the bare except, which returns [].  Either way
\* the lines that emit threat_detected are not reached.
ScanEntities(has_entities, hostile) ==
    IF ~has_entities
    THEN [entities |-> <<>>, emitted |-> FALSE, failed |-> FALSE]
    ELSE [entities |-> <<>>, emitted |-> FALSE, failed |-> TRUE]

\* _assess_threat_level, read from the bot's health and from the entities of
\* last_scan, the snapshot stored before the one being built.
AssessThreatLevel(health, entities) ==
    IF health < 6 THEN "CRITICAL"
    ELSE IF \E i \in DOMAIN entities : entities[i].hostile /\ entities[i].distance < 8
    THEN "HIGH"
    ELSE IF health < 12 THEN "MEDIUM"
    ELSE "SAFE"

\* A dict of item names and counts is the set of its items; at most one item
\* has a given name.
RECURSIVE SumCounts(_)
SumCounts(items) ==
    IF items = {} THEN 0
    ELSE LET it == CHOOSE x \in items : TRUE
         IN it.count + SumCounts(items \ {it})

\* sum(count for name, count in inventory.items() if word in name)
CountWhere(inventory, word) ==
    SumCounts({it \in inventory : word \in WordsIn(it.name)})

\* inventory.get(name, 0)
CountOf(inventory, name) == SumCounts({it \in inventory : it.name = name})

\* _assess_resources, as a function of the inventory it reads
AssessResources(inventory) ==
    IF \A it \in inventory : "pickaxe" \notin WordsIn(it.name)
    THEN "CRAFT_TOOLS"
    ELSE IF \A it \in inventory : "sword" \notin WordsIn(it.name)
    THEN "CRAFT_WEAPONS"
    ELSE "MINE_RESOURCES"

\* _get_craftable_items, as a function of the inventory it reads
GetCraftableItems(inventory) ==
    LET logs == CountWhere(inventory, "log")
        planks == CountWhere(inventory, "plank")
        sticks == CountOf(inventory, "stick")
        cobble == CountOf(inventory, "cobblestone")
        iron == CountOf(inventory, "iron_ingot")
        If(c, item) == IF c THEN <<item>> ELSE <<>>
    IN If(logs > 0, "planks") \o If(planks >= 2, "stick")
       \o If(planks >= 4, "crafting_table")
       \o If(planks >= 3 /\ sticks >= 2, "wooden_pickaxe")
       \o If(planks >= 2 /\ sticks >= 1, "wooden_sword")
       \o If(cobble >= 3 /\ sticks >= 2, "stone_pickaxe")
       \o If(cobble >= 2 /\ sticks >= 1, "stone_sword")
       \o If(cobble >= 8, "furnace")
       \o If(iron >= 3 /\ sticks >= 2, "iron_pickaxe")

\* get_complete_state begins.  At the recursion limit its first call raises
\* RecursionError and so do the calls of its except clause: the exception
\* leaves get_complete_state.  Without a ready bot the minimal state is
\* returned.
GcsStart ==
    /\ At("get_complete_state", "start")
    /\ IF ~CanCall(stack)
       THEN /\ stack' = Propagate(stack)
            /\ UNCHANGED snap_vars
       ELSE IF ~bot_ready
       THEN /\ stack' = Below(stack)
            /\ returned' = [state |-> MinimalState, why |-> "not_ready",
                            scan_failed |-> FALSE, hostile |-> hostile_close]
            /\ UNCHANGED <<seen, last_scan>>
       ELSE /\ stack' = Goto(stack, "health")
            /\ UNCHANGED snap_vars
    /\ UNCHANGED <<clock, last_prompt_time, last_fire, bm_vars, cq_vars, decided,
                   dispatched, last_dispatch, last_damage, exec_log, pure_vars, bus_vars,
                   world_vars>>

\* get_complete_state: the health check.  health_damage is emitted before
\* last_health is updated.
GcsHealth ==
    /\ At("get_complete_state", "health")
    /\ LET current_health == bot_health
       IN /\ seen' = [seen EXCEPT !.health = current_health, !.scan_failed = FALSE]
          /\ IF current_health < last_health
             THEN /\ stack' = Append(
                        [stack EXCEPT ![Len(stack)].pc = "health_done",
                                      ![Len(stack)].val = current_health],
                        Frame("emit", "deliver", "health_damage", 0))
                  /\ last_damage' = DamageEmitted(last_damage, queue)
                  /\ UNCHANGED last_health
             ELSE /\ last_health' = current_health
                  /\ stack' = [stack EXCEPT ![Len(stack)].pc = "food",
                                            ![Len(stack)].val = current_health]
                  /\ UNCHANGED last_damage
    /\ UNCHANGED <<bot_health, hostile_close, bot_food, last_food, bot_ready, bot_inventory,
                   clock,
                   last_prompt_time, last_fire, bm_vars, cq_vars, decided, dispatched,
                   last_dispatch, exec_log, pure_vars, bus_vars, returned, last_scan>>

\* get_complete_state after emit('health_damage') returned:
\* self.last_health = current_health
GcsHealthDone ==
    /\ At("get_complete_state", "health_done")
    /\ last_health' = Top.val
    /\ stack' = Goto(stack, "food")
    /\ UNCHANGED <<bot_health, hostile_close, bot_food, last_food, bot_ready, bot_inventory,
                   clock,
                   last_prompt_time, last_fire, bm_vars, cq_vars, log_vars>>

\* get_complete_state: the food check.  food_decrease is emitted before
\* last_food is updated.
GcsFood ==
    /\ At("get_complete_state", "food")
    /\ LET current_food == bot_food
       IN /\ seen' = [seen EXCEPT !.food = current_food]
          /\ IF current_food < last_food
             THEN /\ stack' = Append(Goto(stack, "food_done"),
                                     Frame("emit", "deliver", "food_decrease", 0))
                  /\ UNCHANGED last_food
             ELSE /\ last_food' = current_food
                  /\ stack' = Goto(stack, "scan")
    /\ UNCHANGED <<bot_health, hostile_close, last_health, bot_food, bot_ready, bot_inventory,
                   clock,
                   last_prompt_time, last_fire, bm_vars, cq_vars, decided, dispatched,
                   last_dispatch, last_damage, exec_log, pure_vars, bus_vars, returned, last_scan>>

\* get_complete_state after emit('food_decrease') returned:
\* self.last_food = current_food
GcsFoodDone ==
    /\ At("get_complete_state", "food_done")
    /\ last_food' = bot_food
    /\ stack' = Goto(stack, "scan")
    /\ UNCHANGED <<bot_health, hostile_close, last_health, bot_food, bot_ready, bot_inventory,
                   clock,
                   last_prompt_time, last_fire, bm_vars, cq_vars, log_vars>>

\* get_complete_state builds the state: _scan_entities is where
\* threat_detected would be emitted.  A bot that has its entity attribute has
\* its entities attribute too.
GcsScan ==
    /\ At("get_complete_state", "scan")
    /\ LET has_entities == bot_ready
           r == ScanEntities(has_entities, hostile_close)
       IN /\ seen' = [seen EXCEPT !.scan_failed = r.failed]
          /\ IF r.emitted
             THEN stack' = Append(Goto(stack, "done"),
                                  Frame("emit", "deliver", "threat_detected", 0))
             ELSE stack' = Goto(stack, "done")
    /\ UNCHANGED <<clock, last_prompt_time, last_fire, bm_vars, cq_vars, decided,
                   dispatched, last_dispatch, last_damage, exec_log, pure_vars, bus_vars,
                   returned, last_scan, world_vars>>

\* get_complete_state returns the state.
GcsReturn ==
    /\ At("get_complete_state", "done")
    /\ stack' = Below(stack)
    /\ LET scanned == ScanEntities(bot_ready, hostile_close).entities
       IN /\ returned' = [state |-> [health |-> Top.val, food |-> bot_food,
                                     inventory |-> bot_inventory,
                                     nearby_entities |-> scanned,
                                     threat_level |->
                                         AssessThreatLevel(bot_health,
                                                           last_scan.nearby_entities),
                                     resource_priority |->
                                         AssessResources(last_scan.inventory),
                                     craftable_items |->
                                         GetCraftableItems(last_scan.inventory)],
                          why |-> "built", scan_failed |-> seen.scan_failed,
                          hostile |-> hostile_close]
          /\ last_scan' = [nearby_entities |-> scanned, inventory |-> bot_inventory]
    /\ UNCHANGED <<clock, last_prompt_time, last_fire, bm_vars, cq_vars, decided,
                   dispatched, last_dispatch, last_damage, exec_log, pure_vars, bus_vars, seen,
                   world_vars>>

\* EventBus.emit: the subscribed handler, if any, is called inside try/except.
\* At the recursion limit the call raises and so does the logging call of the
\* except clause: the exception leaves emit and is caught by the except clause
\* of get_complete_state, which returns the minimal state.
EmitDeliver ==
    /\ At("emit", "deliver")
    /\ IF ~HasSubscriber(Top.event)
       THEN /\ stack' = Goto(stack, "delivered")
            /\ UNCHANGED returned
       ELSE IF CanCall(stack)
       THEN /\ stack' = Append(Goto(stack, "delivered"),
                               Frame(Subscriber(Top.event), "start", "", 0))
            /\ UNCHANGED returned
       ELSE /\ stack' = Below(Below(stack))
            /\ returned' = [state |-> MinimalState, why |-> "failed",
                            scan_failed |-> FALSE, hostile |-> hostile_close]
    /\ UNCHANGED <<clock, last_prompt_time, last_fire, bm_vars, cq_vars, decided,
                   dispatched, last_dispatch, last_damage, exec_log, pure_vars, bus_vars, seen, last_scan,
                   world_vars>>

\* EventBus.emit returns.
EmitReturn ==
    /\ At("emit", "delivered")
    /\ stack' = Below(stack)
    /\ last_damage' = IF DamageFrames(stack) = {Len(stack)}
                      THEN [last_damage EXCEPT !.active = FALSE]
                      ELSE last_damage
    /\ UNCHANGED <<clock, last_prompt_time, last_fire, bm_vars, cq_vars, decided,
                   dispatched, last_dispatch, ext_vars, world_vars>>

\* _on_damage: the queue is cleared, then decide_next_action is called.
OnDamage ==
    /\ At("_on_damage", "start")
    /\ LET r == QueueClear(queue, current_command)
       IN /\ queue' = r.queue
          /\ current_command' = r.current_command
    /\ IF CanCall(stack)
       THEN stack' = Append(Goto(stack, "called"),
                            Frame("decide_next_action", "perceive", "", 0))
       ELSE stack' = Propagate(stack)
    /\ UNCHANGED <<history, next_id, archived, clears, clock, last_prompt_time,
                   last_fire, bm_vars, log_vars, world_vars>>

\* A handler that reacts to every threat, whatever is pending.
ThreatStartsRoundAlways(q) == TRUE

\* _on_threat: if self.queue.is_empty()
ThreatStartsRound(q) == QueueIsEmpty(q)

\* _on_threat: decide_next_action is called if the queue is empty.
OnThreat ==
    /\ At("_on_threat", "start")
    /\ IF ThreatStartsRound(queue)
       THEN IF CanCall(stack)
            THEN stack' = Append(Goto(stack, "called"),
                                 Frame("decide_next_action", "perceive", "", 0))
            ELSE stack' = Propagate(stack)
       ELSE stack' = Below(stack)
    /\ UNCHANGED <<clock, last_prompt_time, last_fire, bm_vars, cq_vars, log_vars,
                   world_vars>>

\* An event handler returns.
HandlerReturn ==
    /\ stack # <<>>
    /\ Top.fn \in {"_on_damage", "_on_threat"}
    /\ Top.pc = "called"
    /\ stack' = Below(stack)
    /\ UNCHANGED <<clock, last_prompt_time, last_fire, bm_vars, cq_vars, log_vars,
                   world_vars>>

\* Every decision is queued, IDLE too.
ShouldEnqueueAlways(decision) == decision.action \in DecisionActions

\* decide_next_action: a decision is queued unless its action is IDLE.
ShouldEnqueue(decision) == decision.action # "IDLE"

\* What the votes and the winner's decide can do in a scheduler run.
TickVoteOutcomes == {[raises |-> FALSE, score |-> 60]}
TickDecideOutcomes ==
    {[raises |-> TRUE, action |-> "IDLE", priority |-> NoPriority],
     [raises |-> FALSE, action |-> "IDLE", priority |-> "LOW"],
     [raises |-> FALSE, action |-> "MOVE", priority |-> "HIGH"]}

\* decide_next_action: decision = self.brain_manager.decide(perception_state),
\* then the decision is queued or dropped.  An exception of decide leaves
\* decide_next_action.  The class body defines decide_next_action twice; the
\* second definition replaces the first, and it is the one modelled: it
\* neither reads nor writes self.memory.
ArbitrateUpTo(max_rounds, max_commands) ==
    /\ At("decide_next_action", "arbitrate")
    /\ Len(bm_history) < max_rounds
    /\ next_id <= max_commands
    /\ \E vo \in [DOMAIN brains -> TickVoteOutcomes], do \in TickDecideOutcomes :
          LET r == BMDecide(brains, bm_history, vo, do)
          IN /\ bm_history' = r.history
             /\ bm_call' = CallRecord(r, vo)
             /\ IF r.raised
                THEN /\ stack' = Propagate(stack)
                     /\ UNCHANGED <<queue, next_id, decided>>
                ELSE /\ stack' = Below(stack)
                     /\ IF ShouldEnqueue(r.decision)
                        THEN /\ queue' = QueueAdd(queue, r.decision, next_id)
                             /\ next_id' = next_id + 1
                             /\ decided' = decided \cup {next_id}
                        ELSE UNCHANGED <<queue, next_id, decided>>
    /\ last_damage' = IF last_damage.active
                      THEN [last_damage EXCEPT !.rounds = @ + 1]
                      ELSE last_damage
    /\ UNCHANGED <<brains, current_command, history, archived, clears, dispatched,
                   last_dispatch, ext_vars, clock, last_prompt_time, last_fire, world_vars>>

Arbitrate == ArbitrateUpTo(MaxAMRounds, MaxAMCommands)

TickNext ==
    \/ Update \/ Prompted \/ Process \/ Perceive \/ GcsStart \/ GcsHealth
    \/ GcsHealthDone \/ GcsFood \/ GcsScan \/ GcsReturn \/ EmitDeliver
    \/ EmitReturn \/ OnDamage \/ HandlerReturn \/ Arbitrate

AMAdd ==
    \E p \in Priorities : Add(ApiCommand("MOVE", p), MaxAMCommands)

AMRegisterBrain ==
    \E b \in BrainNames :
        /\ Len(brains) < Len(RegistrationOrder)
        /\ b = RegistrationOrder[Len(brains) + 1]
        /\ register_brain(b, MaxAMBrains)

AMNext ==
    \/ TickNext \/ TickLoopExcept \/ AdvanceClock \/ WorldChanges \/ AMRegisterBrain
    \/ AMAdd \/ GetNext \/ Pop

SpecAM == Init /\ [][AMNext]_vars

(***************************************************************************)
(* health_damage while commands are pending: the queue is filled from       *)
(* outside, the event is emitted by perception or by a caller of the bus.   *)
(***************************************************************************)
MaxDamageQueue == 3       \* at most this many commands are pending at a time
MaxDamageCommands == 5    \* at most this many commands are added in a run
MaxDamageRounds == 2      \* at most this many rounds are logged in a run
MaxDamageBrains == 1      \* at most this many brains are registered in a run

\* event_bus.emit('health_damage', data), called from outside the scheduler.
EmitHealthDamage ==
    /\ stack = <<>>
    /\ stack' = <<Frame("emit", "deliver", "health_damage", 0)>>
    /\ last_damage' = DamageEmitted(last_damage, queue)
    /\ UNCHANGED <<clock, last_prompt_time, last_fire, bm_vars, cq_vars, decided,
                   dispatched, last_dispatch, ext_vars, world_vars>>

DamageAdd == AddUpTo(ApiCommand("MOVE", "LOW"), MaxDamageCommands, MaxDamageQueue)

DamageArbitrate == ArbitrateUpTo(MaxDamageRounds, MaxDamageCommands)

DamageRegisterBrain ==
    \E b \in BrainNames :
        /\ Len(brains) < Len(RegistrationOrder)
        /\ b = RegistrationOrder[Len(brains) + 1]
        /\ register_brain(b, MaxDamageBrains)

DamageNext ==
    \/ Update \/ Prompted \/ Process \/ Perceive \/ GcsStart \/ GcsHealth
    \/ GcsHealthDone \/ GcsFood \/ GcsScan \/ GcsReturn \/ EmitDeliver
    \/ EmitReturn \/ OnDamage \/ HandlerReturn \/ DamageArbitrate
    \/ WorldChanges \/ DamageRegisterBrain \/ DamageAdd \/ EmitHealthDamage
    \/ TickLoopExcept

SpecDamage == Init /\ [][DamageNext]_vars

(***************************************************************************)
(* The scheduler loop as a thread that is scheduled again and again:       *)
(* _tick_loop calls tick(), sleeps 0.1 s and starts over while running is  *)
(* set, so a step the thread can take is eventually taken.  Commands are   *)
(* also added from outside, and the bot is hurt and heals.                 *)
(***************************************************************************)
MaxSchedQueue == 2       \* at most this many commands are pending at a time
MaxSchedCommands == 2    \* at most this many commands are added in a run
MaxSchedRounds == 2      \* at most this many rounds are logged in a run
MaxSchedBrains == 1      \* at most this many brains are registered in a run

SchedAdd == AddUpTo(ApiCommand("MOVE", "LOW"), MaxSchedCommands, MaxSchedQueue)

SchedArbitrate == ArbitrateUpTo(MaxSchedRounds, MaxSchedCommands)

SchedRegisterBrain ==
    \E b \in BrainNames :
        /\ Len(brains) < Len(RegistrationOrder)
        /\ b = RegistrationOrder[Len(brains) + 1]
        /\ register_brain(b, MaxSchedBrains)

\* The steps of the thread that runs _tick_loop.
SchedSteps ==
    \/ Update \/ Prompted \/ Process \/ Perceive \/ GcsStart \/ GcsHealth
    \/ GcsHealthDone \/ GcsFood \/ GcsScan \/ GcsReturn \/ EmitDeliver
    \/ EmitReturn \/ OnDamage \/ HandlerReturn \/ SchedArbitrate
    \/ TickLoopExcept

SchedNext ==
    \/ SchedSteps \/ AdvanceClock \/ WorldChanges \/ SchedRegisterBrain \/ SchedAdd

SpecSched == Init /\ [][SchedNext]_vars /\ WF_vars(SchedSteps)

(***************************************************************************)
(* ActionManager.execute called with a decision: which call the decision   *)
(* is routed to.  The class body defines execute twice; the second         *)
(* definition replaces the first, and it is the one modelled.              *)
(***************************************************************************)
MaxExecCalls == 2     \* at most this many execute calls are logged

\* The actions a decision can carry: those execute names, FARM and TRADE,
\* and one action execute does not name.
ExecActions ==
    {"MOVE", "LOOK", "CONTROL", "COMBAT", "FLEE", "MINE", "DIG", "EAT", "CRAFT",
     "BUILD", "CHAT", "IDLE", "FARM", "TRADE", "DANCE"}

SkillCall == "skills.execute_skill"
UnknownAction == "logger.warning"

\* The if/elif chain of execute: the handler called for the action.  The
\* params of the decision (has_skill: whether they hold the key 'skill') take
\* no part in the choice.
ExecuteRoute(action, has_skill) ==
    CASE action = "MOVE" -> "_handle_move_to"
      [] action = "LOOK" -> "_handle_look_at"
      [] action = "CONTROL" -> "_handle_control_set"
      [] action = "COMBAT" -> "_handle_interact"
      [] action = "FLEE" -> "_handle_flee"
      [] action \in {"MINE", "DIG"} -> "_handle_dig"
      [] action = "EAT" -> "_handle_eat"
      [] action = "CRAFT" -> "_handle_craft"
      [] action = "BUILD" -> "_handle_build"
      [] action = "CHAT" -> "_handle_chat"
      [] action = "IDLE" -> "_handle_idle"
      [] OTHER -> UnknownAction

\* execute(decision), the whole call: the decision is routed, then the front
\* of the queue, if any, is popped.
ExecuteDecision ==
    \E action \in ExecActions, has_skill \in BOOLEAN :
        /\ stack = <<>>
        /\ Len(exec_log) < MaxExecCalls
        /\ exec_log' = Append(exec_log, [action |-> action, skill |-> has_skill,
                                         route |-> ExecuteRoute(action, has_skill)])
        /\ LET r == Execute(queue, current_command, history, FALSE)
           IN /\ queue' = r.queue
              /\ current_command' = r.current_command
              /\ history' = r.history
              /\ archived' = archived \o r.popped
        /\ UNCHANGED <<next_id, clears, decided, dispatched, last_dispatch, last_damage,
                       pure_vars, bus_vars, snap_vars, bm_vars, am_vars, world_vars>>

ExecNext == ExecuteDecision

SpecExecute == Init /\ [][ExecNext]_vars

(***************************************************************************)
(* The EventBus as the components use it: further EventBus() calls,        *)
(* subscriptions and emissions through any component's reference.  The     *)
(* callbacks are abstract here: each returns or raises.                    *)
(***************************************************************************)
MaxConstructions == 4   \* at most this many EventBus() calls
MaxSubscriptions == 4   \* at most this many subscriptions on the bus

not_bus_vars ==
    <<exec_log, pure_vars, snap_vars, decided, dispatched, last_dispatch, last_damage, bm_vars,
      cq_vars, am_vars, world_vars>>

\* A component is constructed (again): self.event_bus = EventBus()
Construct ==
    \E c \in Components :
        /\ constructions < MaxConstructions
        /\ LET r == EventBusCall(bus_instance, bus_objects)
           IN /\ bus_instance' = r.instance
              /\ bus_objects' = r.objects
              /\ event_bus' = [event_bus EXCEPT ![c] = r.ref]
        /\ constructions' = constructions + 1
        /\ UNCHANGED <<last_emit, not_bus_vars>>

\* ActionManager, the one component that subscribes, calls
\* self.event_bus.subscribe(event, handler)
Subscribe ==
    \E c \in {"ActionManager"}, event \in BusEvents, handler \in BusHandlers :
        /\ BusSubscriptions(bus_objects[event_bus[c]].subscribers) < MaxSubscriptions
        /\ bus_objects' = [bus_objects EXCEPT ![event_bus[c]].subscribers =
                              BusSubscribe(@, event, handler)]
        /\ UNCHANGED <<bus_instance, event_bus, constructions, last_emit, not_bus_vars>>

\* EnhancedPerception, the one component that emits, calls
\* self.event_bus.emit(event, data)
Emit ==
    \E c \in {"EnhancedPerception"}, event \in BusEvents, data \in BusPayloads,
       raising \in SUBSET BusHandlers :
        /\ LET r == BusEmit(bus_objects[event_bus[c]].subscribers, event, data, raising)
           IN last_emit' = [via |-> c, event |-> event, data |-> data,
                            raising |-> raising, calls |-> r.calls,
                            raised |-> r.raised, after |-> constructions]
        /\ UNCHANGED <<bus_instance, bus_objects, event_bus, constructions, not_bus_vars>>

BusNext == Construct \/ Subscribe \/ Emit

SpecBus == Init /\ [][BusNext]_vars

(***************************************************************************)
(* Perception: snapshots taken by the scheduler and by direct calls of     *)
(* get_complete_state, while health, food and readiness of the bot change. *)
(* No brain is registered, so every round decides IDLE and the queue stays *)
(* empty.                                                                  *)
(***************************************************************************)
FoodValues == {10, 20}

\* The world interface: the bot gets hungry or eats, the bot object goes or
\* comes back, a hostile mob comes within 10 blocks or goes.
VitalsChange ==
    /\ stack = <<>>
    /\ \E f \in FoodValues, r \in BOOLEAN, t \in BOOLEAN :
          /\ <<f, r, t>> # <<bot_food, bot_ready, hostile_close>>
          /\ bot_food' = f
          /\ bot_ready' = r
          /\ hostile_close' = t
    /\ UNCHANGED <<bot_health, last_health, last_food, bot_inventory, bm_vars, cq_vars,
                   log_vars, am_vars>>

\* What the bot can carry in a run.
Inventories ==
    {{},
     {[name |-> "wooden_pickaxe", count |-> 1], [name |-> "oak_planks", count |-> 4],
      [name |-> "stick", count |-> 2]}}

\* The world interface: the bot picks items up, crafts or drops them.
InventoryChange ==
    /\ stack = <<>>
    /\ \E inv \in Inventories :
          /\ inv # bot_inventory
          /\ bot_inventory' = inv
    /\ UNCHANGED <<bot_health, hostile_close, last_health, bot_food, last_food, bot_ready,
                   bm_vars, cq_vars, log_vars, am_vars>>

\* get_complete_state is called directly.
Snapshot ==
    /\ stack = <<>>
    /\ stack' = <<Frame("get_complete_state", "start", "", 0)>>
    /\ UNCHANGED <<clock, last_prompt_time, last_fire, bm_vars, cq_vars, log_vars,
                   world_vars>>

\* threat_detected is emitted on the bus from outside get_complete_state.
EmitThreatDetected ==
    /\ stack = <<>>
    /\ hostile_close
    /\ stack' = <<Frame("emit", "deliver", "threat_detected", 0)>>
    /\ UNCHANGED <<clock, last_prompt_time, last_fire, bm_vars, cq_vars, log_vars,
                   world_vars>>

PerceptionNext ==
    \/ TickNext \/ GcsFoodDone \/ OnThreat \/ AdvanceClock \/ WorldChanges
    \/ VitalsChange \/ InventoryChange \/ Snapshot \/ EmitThreatDetected

SpecPerception == Init /\ [][PerceptionNext]_vars

(***************************************************************************)
(* threat_detected delivered to the ActionManager while commands are       *)
(* pending or not: the event is emitted on the bus from outside            *)
(* get_complete_state, commands are added from outside, and the handler's  *)
(* round takes its snapshot of a bot that may have been hurt.              *)
(***************************************************************************)
MaxThreatQueue == 2       \* at most this many commands are pending at a time
MaxThreatCommands == 2    \* at most this many commands are added in a run
MaxThreatRounds == 1      \* at most this many rounds are logged in a run
MaxThreatBrains == 1      \* at most this many brains are registered in a run

ThreatAdd == AddUpTo(ApiCommand("MOVE", "LOW"), MaxThreatCommands, MaxThreatQueue)

ThreatArbitrate == ArbitrateUpTo(MaxThreatRounds, MaxThreatCommands)

ThreatRegisterBrain ==
    \E b \in BrainNames :
        /\ Len(brains) < Len(RegistrationOrder)
        /\ b = RegistrationOrder[Len(brains) + 1]
        /\ register_brain(b, MaxThreatBrains)

ThreatNext ==
    \/ EmitThreatDetected \/ EmitDeliver \/ EmitReturn \/ OnThreat \/ OnDamage
    \/ HandlerReturn \/ Perceive \/ GcsStart \/ GcsHealth \/ GcsHealthDone
    \/ GcsFood \/ GcsFoodDone \/ GcsScan \/ GcsReturn \/ ThreatArbitrate
    \/ WorldChanges \/ VitalsChange \/ ThreatRegisterBrain \/ ThreatAdd

SpecThreat == Init /\ [][ThreatNext]_vars

(***************************************************************************)
(* The brains asked directly: one perception is handed to vote and decide  *)
(* of the brains above.  The methods read nothing but their argument, so   *)
(* one call stands for every call.                                         *)
(***************************************************************************)
not_pure_vars ==
    <<exec_log, bus_vars, snap_vars, decided, dispatched, last_dispatch, last_damage,
      bm_vars, cq_vars, am_vars, world_vars>>

AskBrains ==
    \E p \in Perceptions :
        /\ ~brain_out.asked
        /\ brain_out' = BrainsAnswer(p)
        /\ UNCHANGED <<skill_out, llm_vars, mem_vars, thread_vars, not_pure_vars>>

BrainsNext == AskBrains

SpecBrains == Init /\ [][BrainsNext]_vars

(***************************************************************************)
(* A skill executed directly: execute_skill is called once with a skill    *)
(* name, the bot object answering in any of the ways above.                *)
(***************************************************************************)
CallSkill ==
    \E skill_name \in SkillNames, w \in CraftWorlds :
        /\ ~skill_out.called
        /\ LET r == ExecuteSkill(skill_name, w)
           IN skill_out' = [called |-> TRUE, skill_name |-> skill_name, world |-> w,
                            calls |-> r.calls, result |-> r.result, raised |-> r.raised]
        /\ UNCHANGED <<brain_out, llm_vars, mem_vars, thread_vars, not_pure_vars>>

SkillsNext == CallSkill

SpecSkills == Init /\ [][SkillsNext]_vars

(***************************************************************************)
(* The LLMBrain alone: _start_ai constructs it from the enabled providers  *)
(* of settings.json; after that decide is called round after round, and    *)
(* set_knowledge may be called on it.                                      *)
(***************************************************************************)
\* _start_ai, lines 471-496: LLMBrain(llm_apis, self.logger)
ConstructLLMBrain ==
    \E apis \in ApiLists :
        /\ ~llm_brain.constructed
        /\ llm_brain' = LLMBrainNew(apis)
        /\ UNCHANGED <<llm_call, brain_out, skill_out, mem_vars, thread_vars, not_pure_vars>>

\* LLMBrain.set_knowledge(knowledge)
SetKnowledge ==
    /\ llm_brain.constructed
    /\ llm_brain' = [llm_brain EXCEPT !.knowledge = TRUE]
    /\ UNCHANGED <<llm_call, brain_out, skill_out, mem_vars, thread_vars, not_pure_vars>>

\* LLMBrain.decide(perception), each provider answering in any way
LLMBrainDecide ==
    \E p \in LLMPerceptions, answers \in AnswersOf(llm_brain.apis) :
        /\ llm_brain.constructed
        /\ LET r == LLMDecide(llm_brain, answers, p)
           IN /\ llm_brain' = [llm_brain EXCEPT !.error_count = r.error_count]
              /\ llm_call' = [called |-> TRUE, before |-> llm_brain.error_count,
                              answers |-> answers, raised |-> r.raised,
                              result |-> r.result, from |-> r.from,
                              tried |-> r.tried]
        /\ UNCHANGED <<brain_out, skill_out, mem_vars, thread_vars, not_pure_vars>>

LLMNext == ConstructLLMBrain \/ SetKnowledge \/ LLMBrainDecide

SpecLLM == Init /\ [][LLMNext]_vars

(***************************************************************************)
(* The memory store alone: add_turn, remember_location and load called in  *)
(* any order on the HistoryManager that ActionManager.__init__ made.  The  *)
(* first write finds out whether the directory logs is there.              *)
(***************************************************************************)
DirAnswers == IF logs_dir = "unknown" THEN BOOLEAN ELSE {logs_dir = "exists"}

MemoryAddTurn ==
    \E d \in DirAnswers :
        /\ memory_log.added < MaxAdded
        /\ LET mem == AddTurn(memory, memory_log.added + 1)
           IN /\ memory' = mem
              /\ memory_file' = Save(mem, memory_file, d)
        /\ logs_dir' = IF d THEN "exists" ELSE "missing"
        /\ memory_log' = [added |-> memory_log.added + 1, last |-> "add_turn"]
        /\ UNCHANGED <<brain_out, skill_out, llm_vars, thread_vars, not_pure_vars>>

MemoryRememberLocation ==
    \E d \in DirAnswers, name \in LocationNames, x, y, z \in Coordinates :
        /\ LET mem == RememberLocation(memory, name, x, y, z)
           IN /\ memory' = mem
              /\ memory_file' = Save(mem, memory_file, d)
        /\ logs_dir' = IF d THEN "exists" ELSE "missing"
        /\ memory_log' = [memory_log EXCEPT !.last = "remember_location"]
        /\ UNCHANGED <<brain_out, skill_out, llm_vars, thread_vars, not_pure_vars>>

MemoryLoad ==
    /\ memory' = Load(memory, memory_file)
    /\ memory_log' = [memory_log EXCEPT !.last = "load"]
    /\ UNCHANGED <<memory_file, logs_dir, brain_out, skill_out, llm_vars, thread_vars, not_pure_vars>>

MemoryNext == MemoryAddTurn \/ MemoryRememberLocation \/ MemoryLoad

SpecMemory == Init /\ [][MemoryNext]_vars

(***************************************************************************)
(* The threads of the scheduler: spawn notifications and MinecraftBot.stop *)
(* as the bot gets them, start() and stop() called on the ActionManager,   *)
(* and every thread started on _tick_loop, one step at a time.  A thread   *)
(* is named by its place in loops.                                         *)
(***************************************************************************)
MaxLoops == 3   \* at most this many threads are ever started

\* ActionManager.start()
Start ==
    /\ running' = TRUE
    /\ loops' = Append(loops, "while")

\* on_spawn: _start_ai(), which returns at once when the ActionManager is there
OnSpawn ==
    /\ IF ai_started THEN UNCHANGED <<ai_started, running, loops>>
       ELSE /\ Len(loops) < MaxLoops
            /\ ai_started' = TRUE
            /\ Start
    /\ UNCHANGED <<writers, brain_out, skill_out, llm_vars, mem_vars, not_pure_vars>>

\* MinecraftBot.stop()
BotStop ==
    /\ running' = IF ai_started THEN FALSE ELSE running
    /\ UNCHANGED <<ai_started, loops, writers, brain_out, skill_out, llm_vars, mem_vars,
                   not_pure_vars>>

\* ActionManager.start(), called on the ActionManager once it is there
AMStart ==
    /\ ai_started
    /\ Len(loops) < MaxLoops
    /\ Start
    /\ UNCHANGED <<ai_started, writers, brain_out, skill_out, llm_vars, mem_vars,
                   not_pure_vars>>

\* ActionManager.stop()
AMStop ==
    /\ ai_started
    /\ running' = FALSE
    /\ UNCHANGED <<ai_started, loops, writers, brain_out, skill_out, llm_vars, mem_vars,
                   not_pure_vars>>

\* _tick_loop: while self.running
LoopWhile ==
    \E t \in DOMAIN loops :
        /\ loops[t] = "while"
        /\ loops' = [loops EXCEPT ![t] = IF running THEN "tick" ELSE "done"]
        /\ UNCHANGED <<ai_started, running, writers, brain_out, skill_out, llm_vars,
                       mem_vars, not_pure_vars>>

\* _tick_loop: self.tick(), with whatever it enqueues, clears, pops and
\* executes, the event handlers it reaches through emit included
LoopTick ==
    \E t \in DOMAIN loops :
        /\ loops[t] = "tick"
        /\ loops' = [loops EXCEPT ![t] = "sleep"]
        /\ writers' = writers \cup {t}
        /\ UNCHANGED <<ai_started, running, brain_out, skill_out, llm_vars, mem_vars,
                       not_pure_vars>>

\* _tick_loop: time.sleep(0.1)
LoopSleep ==
    \E t \in DOMAIN loops :
        /\ loops[t] = "sleep"
        /\ loops' = [loops EXCEPT ![t] = "while"]
        /\ UNCHANGED <<ai_started, running, writers, brain_out, skill_out, llm_vars,
                       mem_vars, not_pure_vars>>

ThreadsNext ==
    OnSpawn \/ BotStop \/ AMStart \/ AMStop \/ LoopWhile \/ LoopTick \/ LoopSleep

SpecThreads == Init /\ [][ThreadsNext]_vars

(***************************************************************************)
(* Properties of a BrainManager round, checked under SpecBM.               *)
(***************************************************************************)

\* C1: BrainManager.decide never raises, whatever the votes and the winning
\* brain's decide do: every call returns a decision.
C1_DecideNeverRaises ==
    bm_call.kind = "decide" => ~bm_call.raised

\* C2: the brain asked to decide is the one with the highest score, and among
\* brains of equal score the one registered first; the decision returned is
\* stamped with that brain.
C2_HighestScoreEarliestWins ==
    (bm_call.kind = "decide" /\ bm_call.vote_raised # <<>>) =>
        LET votes == bm_call.votes
            deciders == {bm_call.calls[k].idx :
                            k \in {j \in DOMAIN bm_call.calls :
                                      bm_call.calls[j].op = "decide"}}
        IN /\ deciders # {}
           /\ \A w \in deciders :
                 /\ \A i \in DOMAIN votes : votes[i].score <= votes[w].score
                 /\ \A i \in 1..(w - 1) : votes[i].score < votes[w].score
                 /\ ~bm_call.raised =>
                       /\ bm_call.decision.brain = brains[w]
                       /\ bm_call.decision.score = votes[w].score

\* C2's case: two brains tie on the highest score and the one registered
\* earlier has won.
C2_Witness ==
    /\ bm_call.kind = "decide"
    /\ ~bm_call.raised
    /\ Len(bm_call.votes) = 3
    /\ bm_call.votes[1].score = 0
    /\ bm_call.votes[2].score = 60
    /\ bm_call.votes[3].score = 60
    /\ bm_call.decision.brain = "CautiousBrain"

\* C3: a vote that raises is scored 0 and its exception does not leave the
\* round: every other brain has still voted and is ranked, and the round
\* raises only if the winner's decide does.
C3_RaisingVoteScoredZero ==
    bm_call.kind = "decide" =>
        /\ Len(bm_call.votes) = Len(bm_call.vote_raised)
        /\ \A i \in DOMAIN bm_call.vote_raised :
              /\ bm_call.votes[i].brain = brains[i]
              /\ bm_call.vote_raised[i] => bm_call.votes[i].score = 0
              /\ \E k \in DOMAIN bm_call.calls :
                    bm_call.calls[k] = [op |-> "vote", idx |-> i]
        /\ bm_call.raised => bm_call.decide_raised
        /\ (~bm_call.raised /\ bm_call.vote_raised # <<>>) =>
              \E e \in DOMAIN bm_history :
                  /\ bm_history[e].decision = bm_call.decision
                  /\ Len(bm_history[e].votes) = Len(bm_call.vote_raised)

\* C3's case: the first brain's vote raised, the second voted 60 and won.
C3_Witness ==
    /\ bm_call.kind = "decide"
    /\ ~bm_call.raised
    /\ Len(bm_call.vote_raised) >= 2
    /\ bm_call.vote_raised[1]
    /\ bm_call.votes[1].score = 0
    /\ bm_call.votes[2].score = 60
    /\ bm_call.decision.brain = "CautiousBrain"

\* C4: in a round every registered brain's vote is called exactly once, and
\* decide is called exactly once, on the winner and on no other brain.
C4_OneVoteEachOneDecide ==
    (bm_call.kind = "decide" /\ bm_call.vote_raised # <<>>) =>
        LET calls == bm_call.calls
            votes == bm_call.votes
            winner == CHOOSE w \in DOMAIN votes :
                         /\ \A i \in DOMAIN votes : votes[i].score <= votes[w].score
                         /\ \A i \in 1..(w - 1) : votes[i].score < votes[w].score
        IN /\ \A i \in DOMAIN bm_call.vote_raised :
                 Cardinality({k \in DOMAIN calls :
                                 calls[k] = [op |-> "vote", idx |-> i]}) = 1
           /\ Cardinality({k \in DOMAIN calls : calls[k].op = "decide"}) = 1
           /\ \A k \in DOMAIN calls :
                 calls[k].op = "decide" => calls[k].idx = winner

\* C4's case: three brains voted, the last one won and its decide raised or
\* returned; it is the only brain asked to decide.
C4_Witness ==
    /\ bm_call.kind = "decide"
    /\ Len(bm_call.votes) = 3
    /\ bm_call.votes[1].score = 0
    /\ bm_call.votes[2].score = 0
    /\ bm_call.votes[3].score = 60
    /\ bm_call.calls[4] = [op |-> "decide", idx |-> 3]

\* C6: every round with at least one brain registered returns a decision that
\* carries the winner's name and score, and adds exactly one entry to the
\* vote history, whose earlier entries stay as they are and where they are.
C6_DecisionStampedHistoryGrows ==
    [][(/\ brains # <<>>
        /\ bm_call'.kind = "decide"
        /\ <<bm_call, bm_history>>' # <<bm_call, bm_history>>)
       => (/\ ~bm_call'.raised
           /\ bm_call'.decision.brain \in {brains[i] : i \in DOMAIN brains}
           /\ bm_call'.decision.score \in Scores
           /\ Len(bm_history') = Len(bm_history) + 1
           /\ SubSeq(bm_history', 1, Len(bm_history)) = bm_history)]_vars

(***************************************************************************)
(* Properties of the CommandQueue, checked under SpecQueue.                *)
(***************************************************************************)

\* C7: add on an empty queue followed by pop leaves the queue empty and the
\* history one entry longer (the popped command is its newest entry; a full
\* history stays at 50); after any add, pop and clear calls the history holds
\* at most 50 commands, and they are the last ones archived, in order: the
\* 51st archived command evicts exactly the oldest.
C7_RoundTripAndHistoryCap ==
    /\ [][(QueueIsEmpty(queue) /\ queue' # queue)
          => (/\ Len(queue') = 1
              /\ queue'[1].id = next_id
              /\ history' = history)]_vars
    /\ [][(Len(queue) = 1 /\ archived' # archived)
          => (/\ queue' = <<>>
              /\ Len(history') = Min(Len(history) + 1, HistoryCap)
              /\ history'[Len(history')].id = queue[1].id
              /\ Len(history) < HistoryCap =>
                    SubSeq(history', 1, Len(history)) = history
              /\ Len(history) = HistoryCap =>
                    SubSeq(history', 1, HistoryCap - 1) = Tail(history))]_vars
    /\ [](/\ Len(history) = Min(Len(archived), HistoryCap)
          /\ [i \in DOMAIN history |-> history[i].id]
                = SubSeq(archived, Len(archived) - Len(history) + 1, Len(archived)))

\* C7's case: the 51st command has just been added to an empty queue and
\* popped; the history holds 50 commands, the first ever archived is gone and
\* the second is now the oldest.
C7_Witness ==
    /\ Len(archived) = HistoryCap + 1
    /\ queue = <<>>
    /\ Len(history) = HistoryCap
    /\ history[1].id = archived[2]
    /\ history[HistoryCap].id = archived[HistoryCap + 1]

(***************************************************************************)
(* Properties of the scheduler, checked under SpecAM.                      *)
(***************************************************************************)

\* C5 as the specification words it: with no brain registered, decide returns
\* an IDLE decision whose reason is "no policies registered", and does not
\* raise.
C5_ReasonNoPoliciesRegistered ==
    (bm_call.kind = "decide" /\ bm_call.vote_raised = <<>>) =>
        /\ ~bm_call.raised
        /\ bm_call.decision.action = "IDLE"
        /\ bm_call.decision.reason = "no policies registered"

\* C5, with the reason the code gives: when decide_next_action runs a round
\* with no brain registered, decide does not raise and returns the IDLE
\* decision with reason "No brains registered", no brain is called, the vote
\* history stays as it is and nothing is added to the queue.
C5_NoBrainsIdleNothingEnqueued ==
    [][(At("decide_next_action", "arbitrate") /\ brains = <<>> /\ stack' # stack)
       => (/\ ~bm_call'.raised
           /\ bm_call'.decision.action = "IDLE"
           /\ bm_call'.decision.reason = "No brains registered"
           /\ bm_call'.calls = <<>>
           /\ bm_history' = bm_history
           /\ queue' = queue
           /\ next_id' = next_id)]_vars

\* C5's case: a round was run with no brain registered; it returned the IDLE
\* decision and the queue, which was empty, is still empty.
C5_Witness ==
    /\ bm_call.kind = "decide"
    /\ bm_call.vote_raised = <<>>
    /\ bm_call.decision = NoBrainsDecision
    /\ brains = <<>>
    /\ queue = <<>>
    /\ next_id = 1

\* C8: commands are dispatched and archived in the order they were enqueued,
\* whatever their priority: the pending commands are in enqueue order, a
\* command is dispatched only when every command still pending was enqueued
\* after it, and the dispatched and the archived commands are in enqueue order.
C8_StrictFifo ==
    /\ \A i, j \in DOMAIN queue : i < j => queue[i].id < queue[j].id
    /\ \A i, j \in DOMAIN dispatched : i < j => dispatched[i] < dispatched[j]
    /\ \A i, j \in DOMAIN archived : i < j => archived[i] < archived[j]
    /\ \A i \in DOMAIN last_dispatch.waiting :
          last_dispatch.waiting[i].id > last_dispatch.id
    /\ \A i \in DOMAIN queue, j \in DOMAIN dispatched : queue[i].id > dispatched[j]
    /\ \A i \in DOMAIN queue, j \in DOMAIN archived : queue[i].id > archived[j]

\* C8's case: a LOW command was dispatched while a HIGH command, enqueued
\* after it, was waiting behind it.
C8_Witness ==
    /\ last_dispatch.priority = "LOW"
    /\ last_dispatch.waiting # <<>>
    /\ last_dispatch.waiting[1].priority = "HIGH"
    /\ last_dispatch.id \in {archived[i] : i \in DOMAIN archived}

\* C9: the self-prompt starts a round only when the queue is empty, and only
\* when more than the idle interval has passed since the last round it
\* started.
C9_SelfPromptOncePerInterval ==
    [][(stack = <<>> /\ Len(stack') = 2)
       => (/\ QueueIsEmpty(queue)
           /\ clock - last_fire > SelfPromptInterval)]_vars

\* C10: no command that decide_next_action put in the queue has action IDLE,
\* be it pending, current or archived.
C10_IdleNeverEnqueued ==
    /\ \A i \in DOMAIN queue : queue[i].id \in decided => queue[i].action # "IDLE"
    /\ \A i \in DOMAIN history :
          history[i].id \in decided => history[i].action # "IDLE"
    /\ current_command.id \in decided => current_command.action # "IDLE"

\* C10's case: a brain won a round of decide_next_action and decided IDLE;
\* nothing has been queued.
C10_Witness ==
    /\ bm_call.kind = "decide"
    /\ ~bm_call.raised
    /\ bm_call.decision.brain = "AggressiveBrain"
    /\ bm_call.decision.action = "IDLE"
    /\ Len(bm_history) = 1
    /\ next_id = 1
    /\ queue = <<>>

(***************************************************************************)
(* Properties of the emergency interruption, checked under SpecDamage.      *)
(***************************************************************************)

\* C11: when health_damage is emitted while 3 commands are pending, then by
\* the time emit returns all 3 are gone from the queue and none of them was
\* dispatched or archived, exactly one arbitration round was run, and the
\* queue holds at most one command, decided by that round.
C11_DamageClearsAndDecidesOnce ==
    [][(/\ last_damage.active
        /\ ~last_damage'.active
        /\ Cardinality(last_damage.pending) = 3)
       => (/\ last_damage'.rounds = 1
           /\ Len(queue') <= 1
           /\ \A i \in DOMAIN queue' :
                 queue'[i].id \in decided' \ last_damage.pending
           /\ \A id \in last_damage.pending :
                 /\ \A k \in DOMAIN dispatched' : dispatched'[k] # id
                 /\ \A k \in DOMAIN archived' : archived'[k] # id)]_vars

(***************************************************************************)
(* Properties of execute and of the command lifecycle, under SpecAM.        *)
(***************************************************************************)

\* C12: whenever tick dispatches a command, execute returns without raising,
\* whether the action handler returned or raised; the dispatched command,
\* which was not dispatched or archived before, leaves the front of the
\* queue (the queue is one shorter) and becomes the newest entry of the
\* history; it is archived once.
C12_ExecuteRetiresOnce ==
    [][dispatched' # dispatched
       => LET cmd == QueueGetNext(queue)
          IN /\ ~last_dispatch'.raised
             /\ dispatched' = Append(dispatched, cmd.id)
             /\ \A k \in DOMAIN dispatched : dispatched[k] # cmd.id
             /\ \A k \in DOMAIN archived : archived[k] # cmd.id
             /\ Len(queue') = Len(queue) - 1
             /\ queue' = Tail(queue)
             /\ archived' = Append(archived, cmd.id)
             /\ history'[Len(history')].id = cmd.id]_vars

\* C12's case: the handler of the last dispatched command raised; execute
\* returned, the command is archived and is no longer pending.
C12_Witness ==
    /\ last_dispatch.id # 0
    /\ last_dispatch.handler_raised
    /\ ~last_dispatch.raised
    /\ archived # <<>>
    /\ archived[Len(archived)] = last_dispatch.id
    /\ \A i \in DOMAIN queue : queue[i].id # last_dispatch.id

(***************************************************************************)
(* The command lifecycle, checked under SpecQueue.                          *)
(***************************************************************************)

\* C13: every pending command has status pending and retry_count 0, every
\* archived command has status completed, and no command is both pending and
\* archived; a command enters the history only from the front of the queue,
\* turning from pending to completed in that step, and neither a pending nor
\* an archived command changes its status in any other step.
C13_CommandLifecycle ==
    /\ [](/\ \A i \in DOMAIN queue :
                queue[i].status = "pending" /\ queue[i].retry_count = 0
          /\ \A j \in DOMAIN history : history[j].status = "completed"
          /\ \A i \in DOMAIN queue, j \in DOMAIN history :
                queue[i].id # history[j].id)
    /\ [][history' # history
          => (/\ queue # <<>>
              /\ queue[1].status = "pending"
              /\ history'[Len(history')] = [queue[1] EXCEPT !.status = "completed"]
              /\ LET rest == SubSeq(history', 1, Len(history') - 1)
                 IN \/ rest = history
                    \/ Len(history) = HistoryCap /\ rest = Tail(history)
              /\ \A i \in DOMAIN queue' : queue'[i].id # queue[1].id)]_vars
    /\ [][\A i \in DOMAIN queue, j \in DOMAIN queue' :
             queue[i].id = queue'[j].id => queue[i].status = queue'[j].status]_vars

\* C13's case: one command has been popped and is archived as completed
\* while a command added after it is pending.
C13_Witness ==
    /\ history # <<>>
    /\ queue # <<>>
    /\ history[Len(history)].status = "completed"
    /\ queue[1].status = "pending"
    /\ queue[1].retry_count = 0
    /\ queue[1].id > history[Len(history)].id

(***************************************************************************)
(* Properties of the routing in execute, checked under SpecExecute.        *)
(***************************************************************************)

\* C14: a decision handed to execute is delegated to SkillManager.execute_skill
\* exactly when its params carry a skill marker or its action is CRAFT, BUILD,
\* FARM or TRADE; every other decision goes to an atomic handler.
C14_SkillDecisionsDelegated ==
    \A i \in DOMAIN exec_log :
        LET c == exec_log[i]
        IN IF c.skill \/ c.action \in {"CRAFT", "BUILD", "FARM", "TRADE"}
           THEN c.route = SkillCall
           ELSE c.route # SkillCall

(***************************************************************************)
(* Properties of the EventBus, checked under SpecBus.                      *)
(***************************************************************************)

\* C15: an emit call, by the time it returns, has called exactly the handlers
\* subscribed to the emitted type, once for each subscription and in the order
\* of subscription, and no handler of another type; the subscriptions are as
\* they were.
C15_EmitDeliversInSubscriptionOrder ==
    [][last_emit' # last_emit
       => LET e == last_emit'
              subs == bus_objects[event_bus[e.via]].subscribers[e.event]
          IN /\ Len(e.calls) = Len(subs)
             /\ \A i \in DOMAIN subs : e.calls[i].handler = subs[i]
             /\ bus_objects' = bus_objects]_vars

\* C15's case: two different handlers are subscribed to the emitted type and
\* were called in subscription order, while a handler subscribed to another
\* type only was not called.
C15_Witness ==
    /\ Len(last_emit.calls) = 2
    /\ last_emit.calls[1].handler # last_emit.calls[2].handler
    /\ \E h \in BusHandlers, e \in BusEvents :
          /\ e # last_emit.event
          /\ \E i \in DOMAIN bus_objects[bus_instance].subscribers[e] :
                bus_objects[bus_instance].subscribers[e][i] = h
          /\ \A i \in DOMAIN last_emit.calls : last_emit.calls[i].handler # h

\* C16: an emit call in which a handler raises does not raise, and every
\* handler subscribed after the raising one is still called, with the payload
\* that was emitted.
C16_RaisingHandlerContained ==
    [][last_emit' # last_emit
       => LET e == last_emit'
              subs == bus_objects[event_bus[e.via]].subscribers[e.event]
          IN /\ ~e.raised
             /\ \A i \in DOMAIN subs :
                   (\E j \in 1..(i - 1) : subs[j] \in e.raising)
                   => /\ i \in DOMAIN e.calls
                      /\ e.calls[i] = [handler |-> subs[i], data |-> e.data]]_vars

\* C16's case: the first handler called raised, and a handler after it was
\* called with the emitted payload.
C16_Witness ==
    /\ Len(last_emit.calls) >= 2
    /\ last_emit.calls[1].handler \in last_emit.raising
    /\ last_emit.calls[2].data = last_emit.data
    /\ ~last_emit.raised

\* C17: there is one EventBus object and every component's event_bus is that
\* object; a further EventBus() call leaves its subscriptions as they are; an
\* event that perception emits reaches the handler ActionManager subscribed.
C17_OneSharedBus ==
    /\ [](/\ Len(bus_objects) = 1
          /\ \A c \in Components : event_bus[c] = bus_instance
          /\ (last_emit.via = "EnhancedPerception" /\ last_emit.event = "health_damage")
             => \E i \in DOMAIN last_emit.calls : last_emit.calls[i].handler = "_on_damage"
          /\ (last_emit.via = "EnhancedPerception" /\ last_emit.event = "threat_detected")
             => \E i \in DOMAIN last_emit.calls : last_emit.calls[i].handler = "_on_threat"
          /\ (last_emit.via = "EnhancedPerception" /\ last_emit.event = "chat_received")
             => \E i \in DOMAIN last_emit.calls : last_emit.calls[i].handler = "_on_chat")
    /\ [][constructions' # constructions => bus_objects' = bus_objects]_vars

\* C17's case: EventBus() was called again after ActionManager subscribed, and
\* then perception emitted health_damage, which reached _on_damage.
C17_Witness ==
    /\ last_emit.after > BusAtStart.constructions
    /\ last_emit.via = "EnhancedPerception"
    /\ last_emit.event = "health_damage"
    /\ last_emit.calls[1].handler = "_on_damage"

(***************************************************************************)
(* Properties of the snapshot, checked under SpecPerception.               *)
(***************************************************************************)

\* C18: in a snapshot health_damage is emitted exactly when the health read is
\* lower than the recorded one, and food_decrease exactly when the food read is
\* lower than the recorded one; a snapshot that reads the health, or the food,
\* that the snapshot before it read does not emit the event.
C18_EmittedOnDecreaseOnly ==
    [][/\ At("get_complete_state", "health")
          => LET emitted == /\ Len(stack') = Len(stack) + 1
                            /\ stack'[Len(stack')].fn = "emit"
                            /\ stack'[Len(stack')].event = "health_damage"
             IN /\ emitted <=> bot_health < last_health
                /\ bot_health = seen.health => ~emitted
       /\ At("get_complete_state", "food")
          => LET emitted == /\ Len(stack') = Len(stack) + 1
                            /\ stack'[Len(stack')].fn = "emit"
                            /\ stack'[Len(stack')].event = "food_decrease"
             IN /\ emitted <=> bot_food < last_food
                /\ bot_food = seen.food => ~emitted]_vars

\* C19: a snapshot that scans the entities emits threat_detected exactly when
\* a hostile is within 10 blocks.
C19_ThreatEmittedWhenHostileClose ==
    [][At("get_complete_state", "scan")
       => ((/\ Len(stack') = Len(stack) + 1
            /\ stack'[Len(stack')].fn = "emit"
            /\ stack'[Len(stack')].event = "threat_detected")
           <=> hostile_close)]_vars

\* C20: no exception leaves get_complete_state, and a snapshot taken without
\* a ready bot, or in which a step failed, returns the minimal state.
C20_SnapshotNeverRaises ==
    /\ []((returned.why \in {"not_ready", "failed"} \/ returned.scan_failed)
          => returned.state = MinimalState)
    /\ [][(stack # <<>> /\ Top.fn = "get_complete_state")
          => Len(stack') >= Len(stack) - 1]_vars

\* C21: a snapshot that was built carries threat level CRITICAL when its
\* health is below 6; HIGH when its health is from 6 to below 20 and a hostile
\* is within 8 blocks; MEDIUM when its health is below 12 and no hostile is
\* within 8 blocks; SAFE otherwise.
C21_ThreatLevelDerivation ==
    returned.why = "built"
    => LET h == returned.state.health
       IN returned.state.threat_level =
             IF h < 6 THEN "CRITICAL"
             ELSE IF h < 20 /\ returned.hostile THEN "HIGH"
             ELSE IF h < 12 /\ ~returned.hostile THEN "MEDIUM"
             ELSE "SAFE"

(***************************************************************************)
(* Properties of the brains' votes and decisions, checked under            *)
(* SpecBrains.                                                             *)
(***************************************************************************)

\* C22: for every perception with health 3, CautiousBrain and SurvivalBrain
\* both vote strictly above 70 and AggressiveBrain votes strictly below 30.
C22_WeakBotVotes ==
    (brain_out.asked /\ brain_out.perception.health = 3)
    => /\ brain_out.votes.CautiousBrain > 70
       /\ brain_out.votes.SurvivalBrain > 70
       /\ brain_out.votes.AggressiveBrain < 30

\* C23: for every perception with no hostile entity and no pickaxe in the
\* inventory, StrategicBrain.decide and SurvivalBrain.decide each return a
\* CRAFT or MINE decision, never IDLE.
C23_ToolProgressionPreferred ==
    (/\ brain_out.asked
     /\ Threats(brain_out.perception) = <<>>
     /\ ~AnyContains(brain_out.perception.inventory, "pickaxe"))
    => /\ brain_out.decisions.StrategicBrain.action \in {"CRAFT", "MINE"}
       /\ brain_out.decisions.SurvivalBrain.action \in {"CRAFT", "MINE"}

(***************************************************************************)
(* Properties of SkillManager.execute_skill, checked under SpecSkills.     *)
(***************************************************************************)

\* C24: execute_skill('craft_item', ...) returns False without raising when
\* no recipe is resolvable (none without a table, and no table found or none
\* with the table), and then makes no mutating bot call: no path goal and no
\* craft.
C24_NoRecipeNoMutation ==
    (/\ skill_out.called
     /\ skill_out.skill_name = "craft_item"
     /\ ~skill_out.world.recipes
     /\ ~(skill_out.world.table /\ skill_out.world.table_recipes))
    => /\ ~skill_out.result
       /\ ~skill_out.raised
       /\ \A i \in DOMAIN skill_out.calls : skill_out.calls[i] \notin MutatingCalls

C24_Witness ==
    /\ skill_out.called
    /\ skill_out.skill_name = "craft_item"
    /\ skill_out.world.require /\ skill_out.world.item_known
    /\ ~skill_out.world.recipes
    /\ skill_out.world.table /\ ~skill_out.world.table_recipes
    /\ skill_out.world.pathfinder
    /\ skill_out.world.raises = "none"
    /\ skill_out.calls = <<RecipesFor, FindBlock, RecipesForTable>>
    /\ ~skill_out.result

(***************************************************************************)
(* Properties of LLMBrain.decide, checked under SpecLLM.                   *)
(***************************************************************************)

\* C25: LLMBrain.decide always returns a decision and never raises: the
\* providers are tried in ascending priority order, and when none yields a
\* decision the rule-based fallback gives one.
C25_LLMDecideAlwaysReturns ==
    llm_call.called
    => /\ ~llm_call.raised
       /\ llm_call.result # None
       /\ \A i, j \in DOMAIN llm_call.tried :
             i < j => \E a, b \in DOMAIN llm_brain.apis :
                         /\ llm_brain.apis[a].id = llm_call.tried[i]
                         /\ llm_brain.apis[b].id = llm_call.tried[j]
                         /\ llm_brain.apis[a].priority <= llm_brain.apis[b].priority

\* C26: a provider whose error count is above 3 is not called in any later
\* decide, and its error count does not decrease.
C26_DisabledProviderStaysDisabled ==
    llm_call.called
    => \A id \in DOMAIN llm_call.before :
          llm_call.before[id] > 3
          => /\ \A i \in DOMAIN llm_call.tried : llm_call.tried[i] # id
             /\ llm_brain.error_count[id] >= llm_call.before[id]

C26_Witness ==
    /\ llm_call.called
    /\ ~llm_call.raised
    /\ \E id \in DOMAIN llm_call.before :
          /\ llm_call.before[id] > 3
          /\ llm_call.answers[id] = "decision"
          /\ llm_call.from # id

\* C27: every failure of a provider called in a round (network error, HTTP
\* error or unparsable response) adds one to that provider's error count.
C27_FailureCounted ==
    (llm_call.called /\ ~llm_call.raised)
    => \A i \in DOMAIN llm_call.tried :
          LET id == llm_call.tried[i]
          IN llm_call.answers[id] \in Failures
             => llm_brain.error_count[id] = llm_call.before[id] + 1

(***************************************************************************)
(* Properties of the memory store, checked under SpecMemory.               *)
(***************************************************************************)

C29_PersistedAfterEveryMutation ==
    memory_log.last \in {"add_turn", "remember_location"}
    => /\ memory_file.exists
       /\ JsonLoad(memory_file) = memory

(***************************************************************************)
(* Properties of the scheduler's threads, checked under SpecThreads.       *)
(***************************************************************************)

\* C30: every change of the queue and every call of the dispatcher is made
\* by the one scheduler loop, and no two scheduler loops are alive at the
\* same time, whatever spawn notifications and start()/stop() calls come.
C30_SingleSchedulerLoop ==
    /\ \A t, u \in DOMAIN loops : (loops[t] # "done" /\ loops[u] # "done") => t = u
    /\ Cardinality(writers) <= 1

InTick == stack # <<>> /\ stack[1].fn = "tick"

\* C32: no failure stops the scheduler: when tick() raises, whether in
\* perception, in arbitration or in dispatch, _tick_loop catches the
\* exception and a later tick begins.
C32_TickErrorDoesNotStopLoop == At("_tick_loop", "except") ~> InTick

\* After a tick whose self-prompt raised in the winner's decide (no damage
\* event was ever emitted, so the exception reached _tick_loop), a command was
\* added and a later tick is about to dispatch it.
C32_Witness ==
    /\ At("tick", "process")
    /\ bm_call.kind = "decide" /\ bm_call.raised
    /\ last_damage = NoDamage
    /\ queue # <<>>

\* C33: the memory store holds one turn for every non-IDLE decision that
\* arbitration enqueued, and none for the IDLE rounds.
C33_OneMemoryWritePerDecision == Len(memory.turns) = Cardinality(decided)

\* C34: a health decrease seen by get_complete_state (the health changes only
\* between ticks) puts one health_damage emission on the stack, never a
\* second one inside the first; the rounds run while it is delivered are at
\* most one; and the chain of handler calls ends before the recursion limit.
C34_SingleDecreaseSingleEmission ==
    /\ Cardinality(DamageFrames(stack)) <= 1
    /\ last_damage.rounds <= 1
    /\ Len(stack) < MaxStack

\* The command with this id is in the queue.
Pending(id) == \E i \in DOMAIN queue : queue[i].id = id

\* How often an id occurs in a log of ids.
Times(log, id) == Cardinality({k \in DOMAIN log : log[k] = id})

\* The run ends here: the thread is about to run a round that the bounds of
\* the run leave out.
RunCut ==
    /\ At("decide_next_action", "arbitrate")
    /\ ~(Len(bm_history) < MaxSchedRounds /\ next_id <= MaxSchedCommands)

\* C35: under a fair scheduler loop a queue that is not empty is eventually
\* empty, so every command in it has left it; a command is dispatched at most
\* once and never while it is still to come, it is archived exactly when it
\* is dispatched, and what the history holds is completed.  A command that
\* left the queue without being dispatched was removed by clear.
C35_EveryCommandEventuallyDispatched ==
    /\ (queue # <<>>) ~> (queue = <<>> \/ RunCut)
    /\ [](\A id \in 1..MaxSchedCommands :
            /\ Times(dispatched, id) <= 1
            /\ Times(archived, id) = Times(dispatched, id)
            /\ Pending(id) => Times(dispatched, id) = 0)
    /\ [](\A k \in DOMAIN history : history[k].status = "completed")

\* Two commands with the same action, priority and reason were added one
\* after the other; both were dispatched, in order, and archived, and the
\* queue is empty.
C35_Witness ==
    /\ queue = <<>>
    /\ dispatched = <<1, 2>>
    /\ archived = <<1, 2>>
    /\ decided = {}
    /\ Len(history) = 2
    /\ history[1].action = history[2].action
    /\ current_command = history[2]

\* Every command added so far was enqueued by decide_next_action: nothing
\* but the scheduler loop and its event handlers has driven the queue.
SchedulerOnly == \A id \in 1..(next_id - 1) : id \in decided

\* C36: when only the scheduler loop and its event handlers drive the queue,
\* the queue never holds more than one command, and between two ticks it is
\* empty.
C36_AtMostOnePending ==
    SchedulerOnly =>
        /\ Len(queue) <= 1
        /\ (stack = <<>> => queue = <<>>)

\* C37: the derived fields of a snapshot that was built are those of its own
\* raw fields: its threat level follows from its health and nearby entities,
\* its resource priority and craftable items from its inventory.
C37_DerivedFieldsOfSameSnapshot ==
    returned.why = "built"
    => LET state == returned.state
       IN /\ state.threat_level = AssessThreatLevel(state.health, state.nearby_entities)
          /\ state.resource_priority = AssessResources(state.inventory)
          /\ state.craftable_items = GetCraftableItems(state.inventory)

\* C38: when the round a self-prompt started has raised and the exception
\* has reached _tick_loop, last_prompt_time is the time of that self-prompt,
\* so the next one comes an idle interval later.
C38_FailedPromptAdvancesTime ==
    At("_tick_loop", "except") => last_prompt_time = last_fire

Tried == {llm_call.tried[i] : i \in DOMAIN llm_call.tried}

\* The place of a provider in self.apis.
PlaceOf(id) == CHOOSE i \in DOMAIN llm_brain.apis : llm_brain.apis[i].id = id

\* What came back from the provider in the last round, had it been called.
Got(id) == CallApi(llm_brain.apis[PlaceOf(id)].type, llm_call.answers[id])

\* The last round got as far as the provider: it did not raise before the
\* loop, and no provider before this one returned its decision.
Reached(id) ==
    /\ ~llm_call.raised
    /\ llm_call.from \in Tried => PlaceOf(id) <= PlaceOf(llm_call.from)

\* The error count of a provider after a round: 0 when the round returned the
\* provider's decision; raised only by one, only for a provider that was
\* called below the threshold and whose call raised, or to 1 after an answer
\* whose log line raised.
CountsAfterRound ==
    \A id \in DOMAIN llm_call.before :
        LET before == llm_call.before[id]
            after == llm_brain.error_count[id]
        IN /\ llm_call.from = id => after = 0
           /\ after > before
                => /\ before <= ErrorThreshold
                   /\ id \in Tried
                   /\ \/ Got(id) = "raises" /\ after = before + 1
                      \/ Got(id) = "no_reason" /\ after = 1

\* C40, as stated: after every round that returned a decision the error
\* counts are as above, and every provider whose count was not above 3 was
\* called in the round.
C40_TriedInEveryLaterRound ==
    (llm_call.called /\ ~llm_call.raised)
    => /\ CountsAfterRound
       /\ \A id \in DOMAIN llm_call.before :
             llm_call.before[id] <= ErrorThreshold => id \in Tried

\* C40, amended: after every round the error counts are as above, and a
\* provider whose count was not above 3 was called in the round exactly when
\* the round got as far as that provider.
C40_TriedWhenReached ==
    llm_call.called
    => /\ CountsAfterRound
       /\ \A id \in DOMAIN llm_call.before :
             llm_call.before[id] <= ErrorThreshold
             => (id \in Tried <=> Reached(id))

\* A provider that had failed three times in a row returned a decision in
\* the last round: its count is 0 again; and a provider after it, below the
\* threshold too, was not called in that round.
C40_Witness ==
    /\ llm_call.called
    /\ ~llm_call.raised
    /\ \E id \in DOMAIN llm_call.before :
          /\ llm_call.before[id] = ErrorThreshold
          /\ llm_call.from = id
          /\ llm_brain.error_count[id] = 0
          /\ \E other \in DOMAIN llm_call.before :
                /\ other # id
                /\ llm_call.before[other] <= ErrorThreshold
                /\ other \notin Tried

====
